---- MODULE Spec2Model ----
(***************************************************************************)
(* A model of the tetsuo/couchdb Go client: the authenticators and the     *)
(* request dispatcher of client.go, and the resource operations of         *)
(* databases.go, configuration.go and the design-document and security     *)
(* services.  Every operation is one action: it builds its request, hands  *)
(* it to the client's transport, and classifies the response.              *)
(*                                                                         *)
(* Text is modelled as a sequence of one-character strings.  A percent     *)
(* escape ("%2F") and a literal word that holds no reserved character      *)
(* ("_all_docs", "true") are each kept as one element of the sequence.     *)
(***************************************************************************)
EXTENDS Integers, Sequences, FiniteSets, TLC

VARIABLES
    client,   \* the Client: baseURL and the injected HTTP transport
    call,     \* the operation in progress and its arguments
    sent,     \* the requests handed to the transport by the operation, in order
    resps,    \* the transport's answers to them, in order
    ret,      \* what the operation returned to its caller
    server,   \* the document store behind the "couch" transport
    known,    \* caller's bookkeeping: ids and revisions returned by its writes
    held,     \* the session cookie the caller keeps from Login (<<>>: none)
    procs     \* the goroutines calling through the one client concurrently

vars == <<client, call, sent, resps, ret, server, known, held, procs>>

----------------------------------------------------------------------------
(* Bounds of the model *)

\* longest request-option list passed to an operation
MaxOpts == 2
\* longest Key / StartKey / EndKey string
MaxKeyLen == 2
\* number of revisions the couch server issues
MaxRev == 3

----------------------------------------------------------------------------
(* Text helpers *)

EmptyStr == <<>>
Quote == "\""
Backslash == "\\"

RECURSIVE Flatten(_)
Flatten(ss) == IF Len(ss) = 0 THEN <<>> ELSE Head(ss) \o Flatten(Tail(ss))

RECURSIVE Join(_, _)
Join(ss, sep) ==
    IF Len(ss) = 0 THEN <<>>
    ELSE IF Len(ss) = 1 THEN Head(ss)
    ELSE Head(ss) \o sep \o Join(Tail(ss), sep)

\* index of the first occurrence of tok in s, or 0
RECURSIVE IndexFrom(_, _, _)
IndexFrom(s, tok, i) ==
    IF i > Len(s) THEN 0
    ELSE IF s[i] = tok THEN i
    ELSE IndexFrom(s, tok, i + 1)

IndexOf(s, tok) == IndexFrom(s, tok, 1)

\* s cut at every occurrence of tok (strings.Split)
RECURSIVE Split(_, _)
Split(s, tok) ==
    LET i == IndexOf(s, tok)
    IN  IF i = 0 THEN <<s>>
        ELSE <<SubSeq(s, 1, i - 1)>> \o Split(SubSeq(s, i + 1, Len(s)), tok)

\* all strings over alphabet of length at most n
RECURSIVE StrsUpTo(_, _)
StrsUpTo(alphabet, n) ==
    IF n = 0 THEN {<<>>}
    ELSE LET shorter == StrsUpTo(alphabet, n - 1)
         IN  shorter \cup {Append(s, c) : s \in shorter, c \in alphabet}

DigitChar == <<"0", "1", "2", "3", "4", "5", "6", "7", "8", "9">>

\* fmt.Sprintf("%d", n) and the JSON encoding of an integer
RECURSIVE Itoa(_)
Itoa(n) ==
    IF n < 0 THEN <<"-">> \o Itoa(0 - n)
    ELSE IF n < 10 THEN <<DigitChar[n + 1]>>
    ELSE Itoa(n \div 10) \o <<DigitChar[(n % 10) + 1]>>

----------------------------------------------------------------------------
(* net/url escaping, as the operations use it *)

\* mutant: only the slash is escaped
PathEscapeSlashOnly(c) == IF c = "/" THEN "%2F" ELSE c

\* url.PathEscape on one character: '/', ';', ',', '?' and every character
\* that is neither unreserved nor one of $&+:=@ become a percent escape
PathEscapeChar(c) ==
    CASE c = "/" -> "%2F"
      [] c = "?" -> "%3F"
      [] c = "#" -> "%23"
      [] c = "%" -> "%25"
      [] c = " " -> "%20"
      [] c = "," -> "%2C"
      [] c = "[" -> "%5B"
      [] c = "]" -> "%5D"
      [] c = Quote -> "%22"
      [] c = Backslash -> "%5C"
      [] OTHER -> c

PathEscape(s) == [i \in 1..Len(s) |-> PathEscapeChar(s[i])]

\* url.QueryEscape on one character: every reserved character becomes a
\* percent escape and a space becomes '+'
QueryEscapeChar(c) ==
    CASE c = " " -> "+"
      [] c = "/" -> "%2F"
      [] c = "?" -> "%3F"
      [] c = "#" -> "%23"
      [] c = "%" -> "%25"
      [] c = "&" -> "%26"
      [] c = "=" -> "%3D"
      [] c = "+" -> "%2B"
      [] c = ":" -> "%3A"
      [] c = "," -> "%2C"
      [] c = "[" -> "%5B"
      [] c = "]" -> "%5D"
      [] c = Quote -> "%22"
      [] c = Backslash -> "%5C"
      [] OTHER -> c

QueryEscape(s) == [i \in 1..Len(s) |-> QueryEscapeChar(s[i])]

\* the character a percent escape stands for
PercentDecode(t) ==
    CASE t = "%2F" -> "/"
      [] t = "%3F" -> "?"
      [] t = "%23" -> "#"
      [] t = "%25" -> "%"
      [] t = "%20" -> " "
      [] t = "%26" -> "&"
      [] t = "%3D" -> "="
      [] t = "%2B" -> "+"
      [] t = "%3A" -> ":"
      [] t = "%2C" -> ","
      [] t = "%5B" -> "["
      [] t = "%5D" -> "]"
      [] t = "%22" -> Quote
      [] t = "%5C" -> Backslash
      [] OTHER -> t

\* url.PathUnescape and url.QueryUnescape, as the receiving server applies them
PathUnescape(s) == [i \in 1..Len(s) |-> PercentDecode(s[i])]

QueryUnescape(s) ==
    [i \in 1..Len(s) |-> IF s[i] = "+" THEN " " ELSE PercentDecode(s[i])]

\* every query parameter name the operations set, in the byte order in which
\* url.Values.Encode sorts them
ParamOrder ==
    << "batch", "conflicts", "deleted_conflicts", "descending", "endkey",
       "endkey_docid", "group", "group_level", "include_docs", "inclusive_end",
       "key", "latest", "limit", "local_seq", "meta", "n", "partitioned", "q",
       "reduce", "rev", "revs", "revs_info", "skip", "sorted", "stable",
       "stale", "startkey", "startkey_docid", "update", "update_seq" >>

\* url.Values{}: no parameter
NoQuery == [k \in {} |-> EmptyStr]

\* url.Values.Set
QSet(q, k, v) == [x \in DOMAIN q \cup {k} |-> IF x = k THEN v ELSE q[x]]

\* query.Set(k, v) under the condition cond
QSetIf(cond, q, k, v) == IF cond THEN QSet(q, k, v) ELSE q

RECURSIVE EncodeFrom(_, _)
EncodeFrom(q, i) ==
    IF i > Len(ParamOrder) THEN <<>>
    ELSE IF ParamOrder[i] \in DOMAIN q
         THEN <<<<ParamOrder[i], "=">> \o QueryEscape(q[ParamOrder[i]])>>
                  \o EncodeFrom(q, i + 1)
         ELSE EncodeFrom(q, i + 1)

\* url.Values.Encode: name=value pairs sorted by name, joined by '&'
Encode(q) == Join(EncodeFrom(q, 1), <<"&">>)

\* if len(query) > 0 { path = fmt.Sprintf("%s?%s", path, query.Encode()) }
WithQuery(path, q) ==
    IF DOMAIN q # {} THEN path \o <<"?">> \o Encode(q) ELSE path

(* The receiving side: the path and the query parameters a server reads out
   of a request target. *)
\* s before and after its position i; position 0 is "not found"
Before(s, i) == IF i = 0 THEN s ELSE SubSeq(s, 1, i - 1)
After(s, i) == IF i = 0 THEN <<>> ELSE SubSeq(s, i + 1, Len(s))

\* a raw '#' starts the fragment, which is not sent
BeforeFragment(target) == Before(target, IndexOf(target, "#"))

BeforeQuery(t) == Before(t, IndexOf(t, "?"))
AfterQueryMark(t) == After(t, IndexOf(t, "?"))

TargetPath(target) == BeforeQuery(BeforeFragment(target))

TargetRawQuery(target) == AfterQueryMark(BeforeFragment(target))

HasQueryMark(target) == IndexOf(target, "?") # 0

\* the path segments, unescaped (the leading '/' gives no segment)
UnescapedAfterFirst(parts) ==
    [i \in 1..(Len(parts) - 1) |-> PathUnescape(parts[i + 1])]

PathSegments(target) == UnescapedAfterFirst(Split(TargetPath(target), "/"))

PairsOf(raw) == IF Len(raw) = 0 THEN <<>> ELSE Split(raw, "&")

\* the name=value pairs of the raw query
QueryPairs(target) == PairsOf(TargetRawQuery(target))

PairName(p) == Before(p, IndexOf(p, "="))

PairValue(p) == QueryUnescape(After(p, IndexOf(p, "=")))

HasParamIn(ps, name) == \E i \in 1..Len(ps) : PairName(ps[i]) = <<name>>

HasParam(target, name) == HasParamIn(QueryPairs(target), name)

\* the URL-decoded value of the first pair called name
ParamValueIn(ps, name) ==
    PairValue(ps[CHOOSE j \in 1..Len(ps) :
                     /\ PairName(ps[j]) = <<name>>
                     /\ \A h \in 1..(j - 1) : PairName(ps[h]) # <<name>>])

\* the URL-decoded value of the first parameter called name
ParamValue(target, name) == ParamValueIn(QueryPairs(target), name)

----------------------------------------------------------------------------
(* encoding/json, as the operations use it *)

\* the bytes encoding/json writes for one character of a string: '"' and '\'
\* get a backslash, and '<', '>', '&' become their \u00XX escapes
EscapeJSONChar(c) ==
    CASE c = Quote -> <<Backslash, Quote>>
      [] c = Backslash -> <<Backslash, Backslash>>
      [] c = "<" -> <<Backslash, "u", "0", "0", "3", "c">>
      [] c = ">" -> <<Backslash, "u", "0", "0", "3", "e">>
      [] c = "&" -> <<Backslash, "u", "0", "0", "2", "6">>
      [] OTHER -> <<c>>

\* mutant: the string is written as it is, without quotes or escapes
MarshalRaw(s) == s

\* json.Marshal of a Go string
MarshalString(s) ==
    <<Quote>> \o Flatten([i \in 1..Len(s) |-> EscapeJSONChar(s[i])]) \o <<Quote>>

(* A Go value of type any, as QueryView's Key, StartKey and EndKey hold it:
   nil, a string, an integer, a slice of strings and integers, or a value
   encoding/json cannot encode (a channel, a func, a NaN). *)
AnyNil == [t |-> "nil", s |-> <<>>, n |-> 0, a |-> <<>>]
AnyStr(str) == [t |-> "str", s |-> str, n |-> 0, a |-> <<>>]
AnyNum(num) == [t |-> "num", s |-> <<>>, n |-> num, a |-> <<>>]
AnyArr(arr) == [t |-> "arr", s |-> <<>>, n |-> 0, a |-> arr]
AnyChan == [t |-> "chan", s |-> <<>>, n |-> 0, a |-> <<>>]

MarshalScalar(v) ==
    CASE v.t = "str" -> MarshalString(v.s)
      [] v.t = "num" -> Itoa(v.n)
      [] OTHER -> <<"null">>

\* json.Marshal(v): the bytes and the error.  On an error the bytes are nil.
Marshal(v) ==
    CASE v.t = "chan" -> [err |-> TRUE, bytes |-> <<>>]
      [] v.t = "arr" ->
            [err |-> FALSE,
             bytes |-> <<"[">>
                       \o Join([i \in 1..Len(v.a) |-> MarshalScalar(v.a[i])], <<",">>)
                       \o <<"]">>]
      [] OTHER -> [err |-> FALSE, bytes |-> MarshalScalar(v)]

\* fmt.Sprintf(`"%s"`, s)
SprintfQuoted(s) == <<Quote>> \o s \o <<Quote>>

(* A JSON parser's reading of a string literal, as the server that receives
   a key applies it: [ok |-> whether text is one well-formed JSON string
   literal, val |-> the string it denotes]. *)
RECURSIVE ParseJSONChars(_, _, _)
ParseJSONChars(text, i, acc) ==
    IF i > Len(text) THEN [ok |-> FALSE, val |-> <<>>]
    ELSE IF text[i] = Quote
         THEN [ok |-> i = Len(text), val |-> IF i = Len(text) THEN acc ELSE <<>>]
    ELSE IF text[i] = Backslash
         THEN IF i + 1 > Len(text) THEN [ok |-> FALSE, val |-> <<>>]
              ELSE IF text[i + 1] \in {Quote, Backslash, "/"}
                   THEN ParseJSONChars(text, i + 2, Append(acc, text[i + 1]))
              ELSE IF /\ text[i + 1] = "u"
                      /\ i + 5 <= Len(text)
                      /\ SubSeq(text, i + 2, i + 5) \in
                            {<<"0", "0", "3", "c">>, <<"0", "0", "3", "e">>,
                             <<"0", "0", "2", "6">>}
                   THEN ParseJSONChars(text, i + 6,
                            Append(acc,
                                CASE SubSeq(text, i + 2, i + 5) = <<"0", "0", "3", "c">> -> "<"
                                  [] SubSeq(text, i + 2, i + 5) = <<"0", "0", "3", "e">> -> ">"
                                  [] OTHER -> "&"))
              ELSE [ok |-> FALSE, val |-> <<>>]
    ELSE ParseJSONChars(text, i + 1, Append(acc, text[i]))

ParseJSONString(text) ==
    IF Len(text) = 0 \/ text[1] # Quote THEN [ok |-> FALSE, val |-> <<>>]
    ELSE ParseJSONChars(text, 2, <<>>)

----------------------------------------------------------------------------
(* client.go: authenticators, request options, the dispatcher *)

\* the header names the authenticators and the dispatcher write
HAuthorization == "Authorization"
HCookie == "Cookie"
HProxyUser == "X-Auth-CouchDB-UserName"
HProxyRoles == "X-Auth-CouchDB-Roles"
HProxyToken == "X-Auth-CouchDB-Token"
HContentType == "Content-Type"

CredentialHeaders == {HAuthorization, HCookie, HProxyUser, HProxyRoles, HProxyToken}

\* http.Header of a new request: no header
NoHeader == [h \in {} |-> EmptyStr]

\* http.Header.Set
HeaderSet(h, k, v) == [x \in DOMAIN h \cup {k} |-> IF x = k THEN v ELSE h[x]]

\* A RequestOption is a closure returning an Authenticator; the record holds
\* the values the closure captured.  cookie = <<>> is the nil *http.Cookie.
WithBasicAuth(username, password) ==
    [kind |-> "basic", user |-> username, secret |-> password,
     roles |-> <<>>, cookie |-> <<>>]

WithCookieAuth(cookie) ==
    [kind |-> "cookie", user |-> "", secret |-> "", roles |-> <<>>, cookie |-> cookie]

WithProxyAuth(username, roles, token) ==
    [kind |-> "proxy", user |-> username, secret |-> token,
     roles |-> roles, cookie |-> <<>>]

WithJWTAuth(token) ==
    [kind |-> "jwt", user |-> "", secret |-> token, roles |-> <<>>, cookie |-> <<>>]

\* a caller-written RequestOption whose Authenticator returns an error
WithFailingAuth ==
    [kind |-> "failing", user |-> "", secret |-> "", roles |-> <<>>, cookie |-> <<>>]

\* a caller-written RequestOption whose Authenticator writes headers of its
\* own choice, a Content-Type among them
WithCustomAuth ==
    [kind |-> "custom", user |-> "", secret |-> "", roles |-> <<>>, cookie |-> <<>>]

CustomAuthenticate(a, header) ==
    HeaderSet(HeaderSet(header, HAuthorization, <<"Custom ", "x">>),
              HContentType, <<"text/plain">>)

\* BasicAuthenticator.Authenticate: req.SetBasicAuth
BasicAuthenticate(a, header) ==
    HeaderSet(header, HAuthorization,
              <<"Basic ", "base64(", a.user, ":", a.secret, ")">>)

\* An *http.Cookie is the sequence of its name and the characters of its
\* value; <<>> is the nil pointer.
CookieName(cookie) == Head(cookie)
CookieValue(cookie) == Tail(cookie)

\* net/http validCookieValueByte: no quote, semicolon or backslash
ValidCookieValueByte(ch) == ch \notin {Quote, ";", "\\"}

\* net/http sanitizeCookieValue: the invalid bytes are dropped, and a value
\* holding a space or a comma is written between double quotes
SanitizeCookieValue(v) ==
    LET kept == SelectSeq(v, ValidCookieValueByte)
    IN  IF \E i \in 1..Len(kept) : kept[i] \in {" ", ","}
        THEN <<Quote>> \o kept \o <<Quote>>
        ELSE kept

\* net/http parseCookieValue with allowDoubleQuote: the surrounding quotes are
\* stripped; ok is FALSE when a byte of what is left is invalid
ParseCookieValue(raw) ==
    LET inner == IF Len(raw) > 1 /\ raw[1] = Quote /\ raw[Len(raw)] = Quote
                 THEN SubSeq(raw, 2, Len(raw) - 1)
                 ELSE raw
    IN  [ok |-> \A i \in 1..Len(inner) : ValidCookieValueByte(inner[i]),
         val |-> inner]

\* CookieAuthenticator.Authenticate: req.AddCookie appends name=value to the
\* Cookie header, after "; " when the header is already there
CookieAuthenticate(a, header) ==
    IF a.cookie # <<>>
    THEN LET pair == <<CookieName(a.cookie), "=">>
                         \o SanitizeCookieValue(CookieValue(a.cookie))
         IN  IF HCookie \in DOMAIN header
             THEN HeaderSet(header, HCookie, header[HCookie] \o <<"; ">> \o pair)
             ELSE HeaderSet(header, HCookie, pair)
    ELSE header

\* ProxyAuthenticator.Authenticate
ProxyAuthenticate(a, header) ==
    LET h1 == HeaderSet(header, HProxyUser, <<a.user>>)
        h2 == IF Len(a.roles) > 0
              THEN HeaderSet(h1, HProxyRoles,
                             Join([i \in 1..Len(a.roles) |-> <<a.roles[i]>>], <<",">>))
              ELSE h1
        h3 == IF a.secret # ""
              THEN HeaderSet(h2, HProxyToken, <<a.secret>>)
              ELSE h2
    IN  h3

\* mutant: the bearer token replaces whatever headers the request had
JWTAuthenticateAlone(a, header) ==
    IF a.secret # ""
    THEN HeaderSet(NoHeader, HAuthorization, <<"Bearer ", a.secret>>)
    ELSE header

\* JWTAuthenticator.Authenticate
JWTAuthenticate(a, header) ==
    IF a.secret # ""
    THEN HeaderSet(header, HAuthorization, <<"Bearer ", a.secret>>)
    ELSE header

\* Authenticator.Authenticate(req): the error and the request's header after it
Authenticate(a, header) ==
    CASE a.kind = "basic" -> [err |-> FALSE, header |-> BasicAuthenticate(a, header)]
      [] a.kind = "cookie" -> [err |-> FALSE, header |-> CookieAuthenticate(a, header)]
      [] a.kind = "proxy" -> [err |-> FALSE, header |-> ProxyAuthenticate(a, header)]
      [] a.kind = "jwt" -> [err |-> FALSE, header |-> JWTAuthenticate(a, header)]
      [] a.kind = "custom" -> [err |-> FALSE, header |-> CustomAuthenticate(a, header)]
      [] OTHER -> [err |-> TRUE, header |-> header]

\* Authenticate(req) on a whole request: the authenticators call
\* req.SetBasicAuth, req.AddCookie and req.Header.Set and nothing else, so
\* the method, the URL and the body are those of the request they were given
AuthenticateRequest(a, req) ==
    [err |-> Authenticate(a, req.header).err,
     req |-> [req EXCEPT !.header = Authenticate(a, req.header).header]]

\* mutant: the first option is applied instead of the last
FirstOption(opts) == opts[1]

\* the option doRequest applies: opts[len(opts)-1]
SelectedOption(opts) == opts[Len(opts)]

\* mutant: the content type is set before the authenticator is applied
doRequestTypeFirst(c, method, path, body, opts) ==
    LET typed == HeaderSet(NoHeader, HContentType, <<"application/json">>)
        auth == IF Len(opts) > 0
                THEN Authenticate(SelectedOption(opts), typed)
                ELSE [err |-> FALSE, header |-> typed]
    IN  [authErr |-> auth.err,
         req |-> [method |-> method,
                  url |-> c.baseURL \o path,
                  path |-> path,
                  body |-> body,
                  header |-> auth.header]]

\* mutant: the authenticator's error is dropped and the request sent
doRequestIgnoringAuthError(c, method, path, body, opts) ==
    LET auth == IF Len(opts) > 0
                THEN Authenticate(SelectedOption(opts), NoHeader)
                ELSE [err |-> FALSE, header |-> NoHeader]
    IN  [authErr |-> FALSE,
         req |-> [method |-> method,
                  url |-> c.baseURL \o path,
                  path |-> path,
                  body |-> body,
                  header |-> HeaderSet(auth.header, HContentType, <<"application/json">>)]]

\* mutant: a call without options sends the cookie of the last login
doRequestWithSession(c, method, path, body, opts) ==
    LET auth == IF Len(opts) > 0
                THEN Authenticate(SelectedOption(opts), NoHeader)
                ELSE [err |-> FALSE,
                      header |-> CookieAuthenticate(WithCookieAuth(held), NoHeader)]
    IN  [authErr |-> auth.err,
         req |-> [method |-> method,
                  url |-> c.baseURL \o path,
                  path |-> path,
                  body |-> body,
                  header |-> HeaderSet(auth.header, HContentType, <<"application/json">>)]]

\* Client.doRequest up to the call of the transport: authErr when applying the
\* authenticator failed (the transport is then not called), and the request
NoBody == [kind |-> "nil"]

doRequest(c, method, path, body, opts) ==
    LET reqURL == c.baseURL \o path
        auth == IF Len(opts) > 0
                THEN Authenticate(SelectedOption(opts), NoHeader)
                ELSE [err |-> FALSE, header |-> NoHeader]
    IN  [authErr |-> auth.err,
         req |-> [method |-> method,
                  url |-> reqURL,
                  path |-> path,
                  body |-> body,
                  header |-> HeaderSet(auth.header, HContentType, <<"application/json">>)]]

----------------------------------------------------------------------------
(* Responses of the transport *)

StatusOK == 200
StatusCreated == 201
StatusAccepted == 202
StatusNotFound == 404

\* one member of a JSON object: its JSON type and its value
JField(type, value) == [t |-> type, s |-> value]

NoFields == [f \in {} |-> JField("str", <<>>)]

\* A response body: the raw text, what kind of JSON document it is
\* ("invalid" when it is not JSON), and the members of an object.
Body(kind, text, fields) == [json |-> kind, text |-> text, fields |-> fields]

BodyNotJSON == Body("invalid", <<"<html>Bad Gateway</html>">>, NoFields)
BodyNull == Body("null", <<"null">>, NoFields)
BodyEmptyObject == Body("object", <<"{}">>, NoFields)
BodyEnvelope ==
    Body("object", <<"{\"error\":\"conflict\",\"reason\":\"Document update conflict.\"}">>,
         [error |-> JField("str", <<"conflict">>),
          reason |-> JField("str", <<"Document update conflict.">>)])
BodyNumericError ==
    Body("object", <<"{\"error\":409}">>, [error |-> JField("num", <<"409">>)])
BodyOK == Body("object", <<"{\"ok\":true}">>, [ok |-> JField("bool", <<"true">>)])
BodyDocResponse ==
    Body("object", <<"{\"ok\":true,\"id\":\"d1\",\"rev\":\"1-a\"}">>,
         [ok |-> JField("bool", <<"true">>), id |-> JField("str", <<"d1">>),
          rev |-> JField("str", <<"1-a">>)])
BodyAllDocs ==
    Body("object", <<"{\"offset\":0,\"rows\":[{\"id\":\"d1\"}],\"total_rows\":1}">>,
         [offset |-> JField("num", <<"0">>), rows |-> JField("arr", <<"[{\"id\":\"d1\"}]">>),
          total_rows |-> JField("num", <<"1">>)])
BodyArray == Body("array", <<"[{\"id\":\"d1\",\"ok\":true,\"rev\":\"1-a\"}]">>, NoFields)
\* a JSON string, character by character: "ol\"d"
BodyString == Body("string", <<Quote, "o", "l", Backslash, Quote, "d", Quote>>, NoFields)
BodyUser ==
    Body("object", <<"{user john}">>,
         [name |-> JField("str", <<"john">>), type |-> JField("str", <<"user">>),
          roles |-> JField("arr", <<"[\"dev\"]">>), salt |-> JField("str", <<"s4lt">>),
          derived_key |-> JField("str", <<"d3r1v3d">>), iterations |-> JField("num", <<"10">>),
          password_scheme |-> JField("str", <<"pbkdf2">>)])

MockBodies ==
    { BodyNotJSON, BodyNull, BodyEmptyObject, BodyEnvelope, BodyNumericError,
      BodyOK, BodyDocResponse, BodyAllDocs, BodyArray, BodyString, BodyUser }

MockStatuses == {200, 201, 202, 404, 409, 500}

\* what client.Do returns: a transport failure (err = "transport"), or a
\* response with its status and a body that io.ReadAll reads or fails on
Response(status, body, readOK) ==
    [err |-> "", status |-> status, body |-> body, readOK |-> readOK]

TransportFailure == [err |-> "transport", status |-> 0, body |-> BodyNull, readOK |-> FALSE]

\* doRequest's own failure: the authenticator returned an error
AuthFailure == [err |-> "auth", status |-> 0, body |-> BodyNull, readOK |-> FALSE]

MockResponses ==
    {TransportFailure}
        \cup {Response(st, b, TRUE) : st \in MockStatuses, b \in MockBodies}
        \cup {Response(st, BodyNotJSON, FALSE) : st \in MockStatuses}

----------------------------------------------------------------------------
(* json.Unmarshal of a response body *)

\* a nil slice or map (an empty one is <<>>)
NilSlice == <<"nil">>

\* the zero value of a Go field of the given JSON type
Zero(type) ==
    CASE type = "str" -> <<>>
      [] type = "num" -> <<"0">>
      [] type = "bool" -> <<"false">>
      [] OTHER -> NilSlice

NoVal == [f \in {} |-> <<>>]

\* a struct with the given json-tagged fields, a slice, a string, a map[string]any
StructTarget(schema) == [kind |-> "struct", schema |-> schema]
SliceTarget == [kind |-> "slice", schema |-> NoVal]
StringTarget == [kind |-> "string", schema |-> NoVal]
MapTarget == [kind |-> "map", schema |-> NoVal]

ZeroOf(target) ==
    CASE target.kind = "struct" ->
            [f \in DOMAIN target.schema |-> Zero(target.schema[f])]
      [] target.kind = "slice" -> [f \in {"items"} |-> NilSlice]
      [] target.kind = "string" -> [f \in {"value"} |-> <<>>]
      [] OTHER -> NoVal

\* json.Unmarshal(body, &target): err is TRUE for text that is not JSON, for a
\* document of another JSON type than the target's, and for an object member
\* of another type than its field's; null leaves the target at its zero value
Unmarshal(body, target) ==
    CASE body.json = "invalid" -> [err |-> TRUE, val |-> ZeroOf(target)]
      [] body.json = "null" -> [err |-> FALSE, val |-> ZeroOf(target)]
      [] target.kind = "struct" /\ body.json = "object" ->
            LET schema == target.schema
                given == DOMAIN schema \cap DOMAIN body.fields
            IN  [err |-> \E f \in given : body.fields[f].t \notin {schema[f], "null"},
                 val |-> [f \in DOMAIN schema |->
                            IF f \in given /\ body.fields[f].t = schema[f]
                            THEN body.fields[f].s
                            ELSE Zero(schema[f])]]
      [] target.kind = "map" /\ body.json = "object" ->
            [err |-> FALSE, val |-> [f \in DOMAIN body.fields |-> body.fields[f].s]]
      [] target.kind = "slice" /\ body.json = "array" ->
            [err |-> FALSE, val |-> [f \in {"items"} |-> body.text]]
      [] target.kind = "string" /\ body.json = "string" ->
            [err |-> ~ParseJSONString(body.text).ok,
             val |-> [f \in {"value"} |-> ParseJSONString(body.text).val]]
      [] OTHER -> [err |-> TRUE, val |-> ZeroOf(target)]

\* type ErrorResponse struct
ErrorResponse == StructTarget([error |-> "str", reason |-> "str"])

----------------------------------------------------------------------------
(* What an operation returns *)

NoErr ==
    [type |-> "nil", msg |-> "", cause |-> "", status |-> 0, body |-> <<>>,
     error |-> <<>>, reason |-> <<>>, subject |-> <<>>, outer |-> ""]

\* fmt.Errorf(msg + ": %w", err) around a failure of doRequest
WrappedError(msg, cause) == [NoErr EXCEPT !.type = "wrapped", !.msg = msg, !.cause = cause]
\* fmt.Errorf("failed to read response: %w", err)
ReadError == [NoErr EXCEPT !.type = "read", !.msg = "failed to read response"]
\* fmt.Errorf("... not found: %s", name)
NotFoundError(msg, subject) ==
    [NoErr EXCEPT !.type = "notfound", !.msg = msg, !.subject = subject]
\* return nil, err: the failure of doRequest as it is
BareError(cause) == [NoErr EXCEPT !.type = "bare", !.cause = cause]
\* fmt.Errorf(msg + ": %w", err) around a failure of json.Marshal
MarshalError(msg) == [NoErr EXCEPT !.type = "marshal", !.msg = msg]
\* fmt.Errorf("request failed with status %d: %s", resp.StatusCode, string(body))
StatusError(status, body) ==
    [NoErr EXCEPT !.type = "status", !.msg = "request failed with status",
                  !.status = status, !.body = body.text]
\* fmt.Errorf(msg + ": %s - %s", errResp.Error, errResp.Reason)
StructuredError(msg, e) ==
    [NoErr EXCEPT !.type = "structured", !.msg = msg, !.error = e.error, !.reason = e.reason]
\* fmt.Errorf(msg + ": %w", err) around a failure of json.Unmarshal
DecodeError(msg) == [NoErr EXCEPT !.type = "decode", !.msg = msg]

\* fmt.Errorf(outer + ": %w", err) around the error of a nested operation
OuterError(outer, e) == [e EXCEPT !.outer = outer]

\* hasVal: the returned result is not nil
RetNone == [kind |-> "none", hasVal |-> FALSE, val |-> NoVal, err |-> NoErr]
RetOk(v) == [kind |-> "ok", hasVal |-> TRUE, val |-> v, err |-> NoErr]
RetOkNil == [kind |-> "ok", hasVal |-> FALSE, val |-> NoVal, err |-> NoErr]
RetErr(e) == [kind |-> "err", hasVal |-> FALSE, val |-> NoVal, err |-> e]
\* a run-time panic: nil pointer dereference
RetPanic == [kind |-> "panic", hasVal |-> FALSE, val |-> NoVal, err |-> NoErr]

\* the non-success branch every operation repeats:
\*   var errResp ErrorResponse
\*   if err := json.Unmarshal(body, &errResp); err != nil { status error }
\*   return structured error
ErrorFromBody(r, msg) ==
    LET e == Unmarshal(r.body, ErrorResponse)
    IN  IF e.err THEN RetErr(StatusError(r.status, r.body))
        ELSE RetErr(StructuredError(msg, e.val))

\* the success branch: decode the body into the operation's result (a map or
\* a slice decoded from null is returned nil, with a nil error)
DecodeResult(r, target, decodeMsg) ==
    LET d == Unmarshal(r.body, target)
    IN  IF d.err THEN RetErr(DecodeError(decodeMsg))
        ELSE IF target.kind \in {"map", "slice"} /\ r.body.json = "null"
             THEN RetOkNil
        ELSE RetOk(d.val)

\* The template of an operation after doRequest returned r: the doRequest
\* error, the read error, the status table and the two decodings.
Classify(r, okStatuses, msg, target, decodeMsg) ==
    IF r.err # "" THEN RetErr(WrappedError(msg, r.err))
    ELSE IF ~r.readOK THEN RetErr(ReadError)
    ELSE IF r.status \notin okStatuses THEN ErrorFromBody(r, msg)
    ELSE DecodeResult(r, target, decodeMsg)

\* mutant: the 404 goes through the status table like any other status
ClassifyFetchNo404(r, notFoundMsg, subject, msg, target, decodeMsg) ==
    Classify(r, {StatusOK}, msg, target, decodeMsg)

\* the same with the 404 branch of the single-entity fetches before the table
ClassifyFetch(r, notFoundMsg, subject, msg, target, decodeMsg) ==
    IF r.err # "" THEN RetErr(WrappedError(msg, r.err))
    ELSE IF ~r.readOK THEN RetErr(ReadError)
    ELSE IF r.status = StatusNotFound THEN RetErr(NotFoundError(notFoundMsg, subject))
    ELSE IF r.status # StatusOK THEN ErrorFromBody(r, msg)
    ELSE DecodeResult(r, target, decodeMsg)

----------------------------------------------------------------------------
(* The client and its transport *)

RECURSIVE TrimRight(_, _)
TrimRight(s, c) ==
    IF Len(s) > 0 /\ s[Len(s)] = c THEN TrimRight(SubSeq(s, 1, Len(s) - 1), c) ELSE s

\* NewClient(baseURL, WithHTTPClient(transport)).  The transport is a test
\* double: "mock" answers any request with any response, "couch" is a
\* CouchDB node holding one database.
NewClient(baseURL, transport) ==
    [baseURL |-> TrimRight(baseURL, "/"), transport |-> transport]

BaseURL == <<"http://localhost:5984", "/">>

(* The "couch" transport: a server that issues a fresh revision on every
   accepted write and answers a write that names another revision than the
   document's current one with 409 Conflict. *)
CouchDBName == <<"db">>

Rev(n) == Itoa(n) \o <<"-", "r">>

Uuid(n) == <<"uuid">> \o Itoa(n)

NoDocs == [id \in {} |-> [rev |-> <<>>, data |-> <<>>]]

EmptyServer == [docs |-> NoDocs, seq |-> 0]

BodyMissing ==
    Body("object", <<"{\"error\":\"not_found\",\"reason\":\"missing\"}">>,
         [error |-> JField("str", <<"not_found">>), reason |-> JField("str", <<"missing">>)])

BodyNotAllowed ==
    Body("object", <<"{\"error\":\"method_not_allowed\"}">>,
         [error |-> JField("str", <<"method_not_allowed">>),
          reason |-> JField("str", <<"Only GET,POST,PUT allowed">>)])

BodyWritten(id, rev) ==
    Body("object", <<"{\"ok\":true,\"id\":">> \o id \o <<",\"rev\":">> \o rev \o <<"}">>,
         [ok |-> JField("bool", <<"true">>), id |-> JField("str", id),
          rev |-> JField("str", rev)])

BodyOfDoc(id, doc) ==
    Body("object", <<"{\"_id\":">> \o id \o <<",\"_rev\":">> \o doc.rev \o <<"}">>,
         [f \in {"_id", "_rev", "data"} |->
            CASE f = "_id" -> JField("str", id)
              [] f = "_rev" -> JField("str", doc.rev)
              [] OTHER -> JField("str", doc.data)])

Member(obj, f) == IF f \in DOMAIN obj THEN obj[f] ELSE <<>>

CouchStore(srv, id, rev, data, status) ==
    LET exists == id \in DOMAIN srv.docs
        current == IF exists THEN srv.docs[id].rev = rev ELSE rev = <<>>
        newRev == Rev(srv.seq + 1)
    IN  IF ~current
        THEN [resp |-> Response(409, BodyEnvelope, TRUE), server |-> srv]
        ELSE [resp |-> Response(status, BodyWritten(id, newRev), TRUE),
              server |-> [docs |-> [x \in DOMAIN srv.docs \cup {id} |->
                                      IF x = id THEN [rev |-> newRev, data |-> data]
                                      ELSE srv.docs[x]],
                          seq |-> srv.seq + 1]]

(* The _users database of the same node: the server derives the
   hashed-password fields of a user document written with a password, and
   stores the ones of a document written without. *)
UsersDBName == <<"_users">>

HashFields == {"salt", "derived_key", "iterations", "password_scheme"}

\* the hashed-password fields of a stored user document
HashOf(doc) == [f \in HashFields |-> doc[f]]

\* what the server stores for the document written as obj by write number n
UserDocOf(obj, rev, n) ==
    [f \in {"rev", "roles"} \cup HashFields |->
        CASE f = "rev" -> rev
          [] f = "roles" -> Member(obj, "roles")
          [] Member(obj, "password") = <<>> -> Member(obj, f)
          [] f = "salt" -> <<"salt">> \o Itoa(n)
          [] f = "derived_key" -> <<"key-of-">> \o obj["password"]
          [] f = "iterations" -> <<"10">>
          [] OTHER -> <<"pbkdf2">>]

BodyOfUser(id, doc) ==
    LET given == {"_id", "_rev", "roles"} \cup {f \in HashFields : doc[f] # <<>>}
    IN  Body("object", <<"{\"_id\":">> \o id \o <<",\"_rev\":">> \o doc.rev \o <<"}">>,
             [f \in given |->
                CASE f = "_id" -> JField("str", id)
                  [] f = "_rev" -> JField("str", doc.rev)
                  [] f = "roles" -> JField("arr", doc.roles)
                  [] f = "iterations" -> JField("num", doc[f])
                  [] OTHER -> JField("str", doc[f])])

\* mutant: the server accepts a write whatever revision it names
UsersStoreAnyRev(srv, id, obj) ==
    LET newRev == Rev(srv.seq + 1)
    IN  [resp |-> Response(201, BodyWritten(id, newRev), TRUE),
         server |-> [docs |-> [x \in DOMAIN srv.docs \cup {id} |->
                                 IF x = id THEN UserDocOf(obj, newRev, srv.seq + 1)
                                 ELSE srv.docs[x]],
                     seq |-> srv.seq + 1]]

\* a write is accepted only when it names the document's current revision
UsersStore(srv, id, obj) ==
    LET exists == id \in DOMAIN srv.docs
        rev == Member(obj, "_rev")
        current == IF exists THEN srv.docs[id].rev = rev ELSE rev = <<>>
        newRev == Rev(srv.seq + 1)
    IN  IF ~current
        THEN [resp |-> Response(409, BodyEnvelope, TRUE), server |-> srv]
        ELSE [resp |-> Response(201, BodyWritten(id, newRev), TRUE),
              server |-> [docs |-> [x \in DOMAIN srv.docs \cup {id} |->
                                      IF x = id THEN UserDocOf(obj, newRev, srv.seq + 1)
                                      ELSE srv.docs[x]],
                          seq |-> srv.seq + 1]]

\* the JSON object a request carries, if it carries one
RequestObject(req) == IF req.body.kind = "json" THEN req.body.obj ELSE NoVal

\* the revision a write names: the rev parameter, or else the _rev member
RequestRev(pairs, obj) ==
    IF HasParamIn(pairs, "rev") THEN ParamValueIn(pairs, "rev") ELSE Member(obj, "_rev")

\* 202 Accepted for a write with batch=ok, 201 Created otherwise
WriteStatus(pairs) ==
    IF HasParamIn(pairs, "batch") /\ ParamValueIn(pairs, "batch") = <<"ok">>
    THEN 202 ELSE 201

\* the request to the _users database, its path segments and its object
UsersServe(srv, req, segs, obj) ==
    CASE req.method = "PUT" /\ Len(segs) = 2 -> UsersStore(srv, segs[2], obj)
      [] req.method = "GET" /\ Len(segs) = 2 ->
            IF segs[2] \in DOMAIN srv.docs
            THEN [resp |-> Response(200, BodyOfUser(segs[2], srv.docs[segs[2]]), TRUE),
                  server |-> srv]
            ELSE [resp |-> Response(404, BodyMissing, TRUE), server |-> srv]
      [] OTHER -> [resp |-> Response(405, BodyNotAllowed, TRUE), server |-> srv]

\* the request, its path segments, its object and the pairs of its query
CouchServe(srv, req, segs, obj, pairs) ==
    CASE Len(segs) > 0 /\ segs[1] = UsersDBName -> UsersServe(srv, req, segs, obj)
      [] Len(segs) = 0 \/ segs[1] \notin {CouchDBName, UsersDBName} ->
            [resp |-> Response(404, BodyMissing, TRUE), server |-> srv]
      [] req.method = "POST" /\ Len(segs) = 1 ->
            CouchStore(srv,
                       IF "_id" \in DOMAIN obj THEN obj["_id"] ELSE Uuid(srv.seq + 1),
                       RequestRev(pairs, obj), Member(obj, "data"), WriteStatus(pairs))
      [] req.method = "PUT" /\ Len(segs) = 2 ->
            CouchStore(srv, segs[2], RequestRev(pairs, obj), Member(obj, "data"),
                       WriteStatus(pairs))
      [] req.method = "GET" /\ Len(segs) = 2 ->
            IF segs[2] \in DOMAIN srv.docs
            THEN [resp |-> Response(200, BodyOfDoc(segs[2], srv.docs[segs[2]]), TRUE),
                  server |-> srv]
            ELSE [resp |-> Response(404, BodyMissing, TRUE), server |-> srv]
      [] OTHER -> [resp |-> Response(405, BodyNotAllowed, TRUE), server |-> srv]

CouchDo(srv, req) ==
    CouchServe(srv, req, PathSegments(req.path), RequestObject(req),
               QueryPairs(req.path))

\* the one outcome of a request the node answered with c
CouchOutcome(req, c) == [sent |-> <<req>>, r |-> c.resp, server |-> c.server]

\* mutant: doRequest hands the request to the transport once more after a
\* failure of the transport
OutcomesOnRetry(srv, d, respSet) ==
    IF d.authErr
    THEN {[sent |-> <<>>, r |-> AuthFailure, server |-> srv]}
    ELSE IF client.transport = "couch"
    THEN {CouchOutcome(d.req, CouchDo(srv, d.req))}
    ELSE {[sent |-> IF r.err # "" THEN <<d.req, d.req>> ELSE <<d.req>>,
           r |-> r, server |-> srv] : r \in respSet}

\* What one call of doRequest can lead to: d is doRequest's request (or its
\* authentication failure); the outcomes are the requests handed to the
\* transport, doRequest's result r, and the server after it.
OutcomesOn(srv, d, respSet) ==
    IF d.authErr
    THEN {[sent |-> <<>>, r |-> AuthFailure, server |-> srv]}
    ELSE IF client.transport = "couch"
    THEN {CouchOutcome(d.req, CouchDo(srv, d.req))}
    ELSE {[sent |-> <<d.req>>, r |-> r, server |-> srv] : r \in respSet}

Outcomes(d, respSet) == OutcomesOn(server, d, respSet)

\* the outcome of an operation that returned before it called doRequest
NotDispatched == [sent |-> <<>>, r |-> AuthFailure, server |-> server]

\* the responses the transport gave, one for each request it was handed
Answers(o) ==
    IF "resps" \in DOMAIN o THEN o.resps
    ELSE IF Len(o.sent) = 0 THEN <<>> ELSE <<o.r>>

Idle == [op |-> "none"]

\* no goroutine has started a call
NoProcs == <<>>

\* the caller is between two calls
CallerIdle == call = Idle

\* the caller keeps the cookie a Login returned; nothing else hands one out
KeptCookie(result) ==
    IF "cookie" \in DOMAIN result /\ result.cookie # <<>> THEN result.cookie ELSE held

\* the operation returns: the record of the call, the exchange and the result
Return(callRec, o, result) ==
    /\ call' = callRec
    /\ sent' = o.sent
    /\ resps' = Answers(o)
    /\ ret' = result
    /\ server' = o.server
    /\ held' = KeptCookie(result)
    /\ UNCHANGED <<client, procs>>

----------------------------------------------------------------------------
(* Inputs *)

DbNames == {<<"db">>, <<"a", "/", "b">>}

\* the request options a caller passes
AuthOptions ==
    { WithBasicAuth("admin", "adminpass"),
      WithCookieAuth(<<"AuthSession", "abc123">>),
      WithCookieAuth(<<>>),
      WithProxyAuth("proxyuser", <<"r1", "r2">>, "s3cret"),
      WithProxyAuth("proxyuser", <<>>, ""),
      WithJWTAuth("eyJ.tok"),
      WithJWTAuth(""),
      WithFailingAuth }

RECURSIVE ListsUpTo(_, _)
ListsUpTo(S, n) ==
    IF n = 0 THEN {<<>>}
    ELSE LET shorter == ListsUpTo(S, n - 1)
         IN  shorter \cup {Append(l, x) : l \in shorter, x \in S}

\* every option list of at most MaxOpts options
AllOptLists == ListsUpTo(AuthOptions, MaxOpts)

\* no option, or one
FewOptLists == {<<>>, <<WithBasicAuth("admin", "adminpass")>>}

\* the answers of the transport when only the request matters
FewResponses == {Response(200, BodyOK, TRUE), TransportFailure}

----------------------------------------------------------------------------
(* databases.go: DatabaseService *)

DatabaseInfo ==
    StructTarget([db_name |-> "str", doc_count |-> "num", doc_del_count |-> "num",
                  update_seq |-> "str", purge_seq |-> "str", compact_running |-> "bool",
                  disk_format_version |-> "num", instance_start_time |-> "str",
                  cluster |-> "obj", sizes |-> "obj", props |-> "obj"])

DatabaseResponse == StructTarget([ok |-> "bool", error |-> "str", reason |-> "str"])

GetDatabaseResult(dbName, r) ==
    ClassifyFetch(r, "database not found", dbName, "failed to get database",
                  DatabaseInfo, "failed to unmarshal database info")

GetDatabase(optLists, respSet) ==
    /\ CallerIdle
    /\ \E dbName \in DbNames, opts \in optLists :
           LET path == <<"/">> \o PathEscape(dbName)
           IN  \E o \in Outcomes(doRequest(client, "GET", path, NoBody, opts), respSet) :
                   /\ Return([op |-> "GetDatabase", dbName |-> dbName, opts |-> opts],
                             o, GetDatabaseResult(dbName, o.r))
                   /\ UNCHANGED known
       
\* DatabaseCreateOptions; isNil: the options pointer is nil
NilCreateOptions == [isNil |-> TRUE, Q |-> 0, N |-> 0, Partitioned |-> FALSE]

DatabaseCreateOptionsSet ==
    { NilCreateOptions,
      [isNil |-> FALSE, Q |-> 0, N |-> 0, Partitioned |-> FALSE],
      [isNil |-> FALSE, Q |-> 8, N |-> 3, Partitioned |-> TRUE],
      [isNil |-> FALSE, Q |-> 0, N |-> 1, Partitioned |-> FALSE] }

CreateDatabasePath(dbName, options) ==
    LET path == <<"/">> \o PathEscape(dbName)
        q1 == QSetIf(options.Q > 0, NoQuery, "q", Itoa(options.Q))
        q2 == QSetIf(options.N > 0, q1, "n", Itoa(options.N))
        q3 == QSetIf(options.Partitioned, q2, "partitioned", <<"true">>)
    IN  IF ~options.isNil THEN WithQuery(path, q3) ELSE path

CreateDatabaseSuccess == {StatusCreated, StatusOK}

CreateDatabaseResult(r) ==
    Classify(r, CreateDatabaseSuccess, "failed to create database",
             DatabaseResponse, "failed to unmarshal response")

CreateDatabase(optLists, respSet) ==
    /\ CallerIdle
    /\ \E dbName \in DbNames, options \in DatabaseCreateOptionsSet, opts \in optLists :
           \E o \in Outcomes(doRequest(client, "PUT", CreateDatabasePath(dbName, options),
                                       NoBody, opts), respSet) :
               /\ Return([op |-> "CreateDatabase", dbName |-> dbName,
                          options |-> options, opts |-> opts],
                         o, CreateDatabaseResult(o.r))
               /\ UNCHANGED known
       
\* a document handed to json.Marshal: enc is FALSE for a value it rejects
Doc(obj) == [enc |-> TRUE, obj |-> obj]
BadDoc == [enc |-> FALSE, obj |-> NoVal]

\* a request body: nil, or the JSON encoding of obj
JSONBody(obj) == [kind |-> "json", obj |-> obj]

BulkDocLists ==
    { <<>>,
      <<Doc([data |-> <<"v1">>])>>,
      <<Doc([data |-> <<"v1">>]), Doc([data |-> <<"v2">>])>>,
      <<BadDoc>> }

BulkDocsResponse == SliceTarget

BulkPath(dbName) == <<"/">> \o PathEscape(dbName) \o <<"/", "_bulk_docs">>

\* json.Marshal(map[string]any{"docs": docs})
BulkBody(docs) ==
    [err |-> \E i \in 1..Len(docs) : ~docs[i].enc,
     body |-> JSONBody([docs |-> docs])]

BulkInsertSuccess == {StatusCreated, StatusOK}

BulkInsertResult(r) ==
    Classify(r, BulkInsertSuccess, "failed to bulk insert",
             BulkDocsResponse, "failed to unmarshal response")

BulkInsert(optLists, respSet) ==
    /\ CallerIdle
    /\ \E dbName \in DbNames, docs \in BulkDocLists, opts \in optLists :
           LET callRec == [op |-> "BulkInsert", dbName |-> dbName, docs |-> docs, opts |-> opts]
               m == BulkBody(docs)
           IN  /\ UNCHANGED known
               /\ IF m.err
                  THEN Return(callRec, NotDispatched,
                              RetErr(MarshalError("failed to marshal bulk docs")))
                  ELSE \E o \in Outcomes(doRequest(client, "POST", BulkPath(dbName),
                                                   m.body, opts), respSet) :
                           Return(callRec, o, BulkInsertResult(o.r))
       
\* mutant: BulkUpdate takes 200 for a failure
BulkUpdateCreatedOnly == {StatusCreated}

BulkUpdateSuccess == {StatusCreated, StatusOK}

BulkUpdateResult(r) ==
    Classify(r, BulkUpdateSuccess, "failed to bulk update",
             BulkDocsResponse, "failed to unmarshal response")

BulkUpdate(optLists, respSet) ==
    /\ CallerIdle
    /\ \E dbName \in DbNames, docs \in BulkDocLists, opts \in optLists :
           LET callRec == [op |-> "BulkUpdate", dbName |-> dbName, docs |-> docs, opts |-> opts]
               m == BulkBody(docs)
           IN  /\ UNCHANGED known
               /\ IF m.err
                  THEN Return(callRec, NotDispatched,
                              RetErr(MarshalError("failed to marshal bulk docs")))
                  ELSE \E o \in Outcomes(doRequest(client, "POST", BulkPath(dbName),
                                                   m.body, opts), respSet) :
                           Return(callRec, o, BulkUpdateResult(o.r))
       
(* AllDocs *)

\* the characters of a key: a letter, a double quote, a backslash
KeyChars == {"a", Quote, Backslash}

KeyStrs == StrsUpTo(KeyChars, MaxKeyLen)

\* AllDocsOptions with every field at its zero value
ZeroAllDocsOptions ==
    [isNil |-> FALSE, Conflicts |-> FALSE, Descending |-> FALSE, EndKey |-> <<>>,
     EndKeyDocID |-> <<>>, IncludeDocs |-> FALSE, InclusiveEnd |-> FALSE,
     Key |-> <<>>, Keys |-> <<>>, Limit |-> 0, Skip |-> 0, StartKey |-> <<>>,
     StartKeyDocID |-> <<>>, UpdateSeq |-> FALSE]

NilAllDocsOptions == [ZeroAllDocsOptions EXCEPT !.isNil = TRUE]

KeyLists == {<<<<"d1">>>>, <<<<"d2">>, <<"d1">>>>, <<<<"a", Quote>>, <<"d1">>>>}

AllDocsOptionsSet ==
    {NilAllDocsOptions, ZeroAllDocsOptions}
        \cup {[ZeroAllDocsOptions EXCEPT !.Key = k] : k \in KeyStrs}
        \cup {[ZeroAllDocsOptions EXCEPT !.StartKey = k] : k \in KeyStrs}
        \cup {[ZeroAllDocsOptions EXCEPT !.EndKey = k] : k \in KeyStrs}
        \cup {[ZeroAllDocsOptions EXCEPT !.Keys = ks, !.IncludeDocs = inc] :
                ks \in KeyLists, inc \in BOOLEAN}
        \cup {[ZeroAllDocsOptions EXCEPT !.Keys = <<<<"d1">>>>, !.Key = <<"a">>, !.Limit = 2]}
        \cup {[ZeroAllDocsOptions EXCEPT !.Limit = 2, !.Skip = 1, !.IncludeDocs = TRUE]}
        \cup {[ZeroAllDocsOptions EXCEPT !.Conflicts = TRUE, !.Descending = TRUE,
                                         !.InclusiveEnd = TRUE, !.UpdateSeq = TRUE,
                                         !.StartKeyDocID = <<"d1">>, !.EndKeyDocID = <<"d2">>,
                                         !.StartKey = <<"a">>, !.EndKey = <<"a", "a">>]}

AllDocsResponse ==
    StructTarget([offset |-> "num", rows |-> "arr", total_rows |-> "num",
                  update_seq |-> "str"])

\* mutant: the keys are never sent in a POST
AllDocsNeverPosts(options) == FALSE

\* if options != nil && len(options.Keys) > 0
AllDocsUsesPost(options) == ~options.isNil /\ Len(options.Keys) > 0

\* the key as the GET branch puts it in the query: fmt.Sprintf(`"%s"`, key)
AllDocsKeyParam(k) == SprintfQuoted(k)

AllDocsPostPath(dbName, options) ==
    LET path == <<"/">> \o PathEscape(dbName) \o <<"/", "_all_docs">>
        q1 == QSetIf(options.IncludeDocs, NoQuery, "include_docs", <<"true">>)
    IN  WithQuery(path, q1)

AllDocsGetPath(dbName, options) ==
    LET path == <<"/">> \o PathEscape(dbName) \o <<"/", "_all_docs">>
        q1 == QSetIf(options.Conflicts, NoQuery, "conflicts", <<"true">>)
        q2 == QSetIf(options.Descending, q1, "descending", <<"true">>)
        q3 == QSetIf(options.EndKey # <<>>, q2, "endkey", AllDocsKeyParam(options.EndKey))
        q4 == QSetIf(options.EndKeyDocID # <<>>, q3, "endkey_docid", options.EndKeyDocID)
        q5 == QSetIf(options.IncludeDocs, q4, "include_docs", <<"true">>)
        q6 == QSetIf(options.InclusiveEnd, q5, "inclusive_end", <<"true">>)
        q7 == QSetIf(options.Key # <<>>, q6, "key", AllDocsKeyParam(options.Key))
        q8 == QSetIf(options.Limit > 0, q7, "limit", Itoa(options.Limit))
        q9 == QSetIf(options.Skip > 0, q8, "skip", Itoa(options.Skip))
        q10 == QSetIf(options.StartKey # <<>>, q9, "startkey",
                      AllDocsKeyParam(options.StartKey))
        q11 == QSetIf(options.StartKeyDocID # <<>>, q10, "startkey_docid",
                      options.StartKeyDocID)
        q12 == QSetIf(options.UpdateSeq, q11, "update_seq", <<"true">>)
    IN  IF ~options.isNil THEN WithQuery(path, q12) ELSE path

\* The function's resp and err after the if/else.  In the POST branch
\* "resp, err := s.client.doRequest(...)" declares a resp of the block (err
\* is the block's too, from "data, err := json.Marshal(body)"), so the
\* function's own resp and err keep their zero values.
AllDocsOuter(usesPost, r) ==
    IF usesPost THEN [respIsNil |-> TRUE, err |-> ""]
    ELSE [respIsNil |-> r.err # "", err |-> r.err]

AllDocsResult(usesPost, r) ==
    LET outer == AllDocsOuter(usesPost, r)
    IN  IF usesPost /\ r.err # "" THEN RetErr(BareError(r.err))
        ELSE IF outer.err # "" THEN RetErr(WrappedError("failed to get all docs", outer.err))
        ELSE IF outer.respIsNil THEN RetPanic
        ELSE Classify(r, {StatusOK}, "failed to get all docs",
                      AllDocsResponse, "failed to unmarshal response")

AllDocs(optLists, respSet) ==
    /\ CallerIdle
    /\ \E dbName \in DbNames, options \in AllDocsOptionsSet, opts \in optLists :
           LET usesPost == AllDocsUsesPost(options)
               d == IF usesPost
                    THEN doRequest(client, "POST", AllDocsPostPath(dbName, options),
                                   JSONBody([keys |-> options.Keys]), opts)
                    ELSE doRequest(client, "GET", AllDocsGetPath(dbName, options),
                                   NoBody, opts)
           IN  \E o \in Outcomes(d, respSet) :
                   /\ Return([op |-> "AllDocs", dbName |-> dbName, options |-> options,
                              opts |-> opts],
                             o, AllDocsResult(usesPost, o.r))
                   /\ UNCHANGED known
       
----------------------------------------------------------------------------
(* databases.go: DocumentService *)

DocIDs == {<<"a", "/", "b">>} \cup {Uuid(n) : n \in 1..MaxRev}

AllRevs == {Rev(n) : n \in 1..MaxRev}

DocumentResponse == StructTarget([ok |-> "bool", id |-> "str", rev |-> "str"])

\* DocumentGetOptions
ZeroGetOptions ==
    [isNil |-> FALSE, Rev |-> <<>>, Revs |-> FALSE, RevsInfo |-> FALSE,
     Latest |-> FALSE, Conflicts |-> FALSE, DeletedConflicts |-> FALSE,
     LocalSeq |-> FALSE, Meta |-> FALSE]

DocumentGetOptionsSet ==
    { [ZeroGetOptions EXCEPT !.isNil = TRUE],
      ZeroGetOptions,
      [ZeroGetOptions EXCEPT !.Revs = TRUE, !.RevsInfo = TRUE, !.Latest = TRUE,
                             !.Conflicts = TRUE, !.DeletedConflicts = TRUE,
                             !.LocalSeq = TRUE, !.Meta = TRUE] }

GetDocumentPath(dbName, docID, options) ==
    LET path == <<"/">> \o PathEscape(dbName) \o <<"/">> \o PathEscape(docID)
        q1 == QSetIf(options.Rev # <<>>, NoQuery, "rev", options.Rev)
        q2 == QSetIf(options.Revs, q1, "revs", <<"true">>)
        q3 == QSetIf(options.RevsInfo, q2, "revs_info", <<"true">>)
        q4 == QSetIf(options.Latest, q3, "latest", <<"true">>)
        q5 == QSetIf(options.Conflicts, q4, "conflicts", <<"true">>)
        q6 == QSetIf(options.DeletedConflicts, q5, "deleted_conflicts", <<"true">>)
        q7 == QSetIf(options.LocalSeq, q6, "local_seq", <<"true">>)
        q8 == QSetIf(options.Meta, q7, "meta", <<"true">>)
    IN  IF ~options.isNil THEN WithQuery(path, q8) ELSE path

GetDocumentResult(dbName, docID, r) ==
    ClassifyFetch(r, "document not found", dbName \o <<"/">> \o docID,
                  "failed to get document", MapTarget, "failed to unmarshal document")

GetDocument(optLists, respSet) ==
    /\ CallerIdle
    /\ \E dbName \in DbNames, docID \in DocIDs, options \in DocumentGetOptionsSet,
       opts \in optLists :
        \E o \in Outcomes(doRequest(client, "GET", GetDocumentPath(dbName, docID, options),
                                    NoBody, opts), respSet) :
            /\ Return([op |-> "GetDocument", dbName |-> dbName, docID |-> docID,
                       options |-> options, opts |-> opts],
                      o, GetDocumentResult(dbName, docID, o.r))
            /\ UNCHANGED known

\* DocumentPutOptions
NilPutOptions == [isNil |-> TRUE, Rev |-> <<>>, Batch |-> <<>>]
PutOptions(rev, batch) == [isNil |-> FALSE, Rev |-> rev, Batch |-> batch]

\* json.Marshal(doc)
MarshalDoc(doc) == [err |-> ~doc.enc, body |-> JSONBody(doc.obj)]

\* the round-trip caller's bookkeeping after a write: the id and the revision
\* the write returned.  Only the caller of the "couch" transport keeps it.
Remember(result) ==
    IF client.transport = "couch" /\ result.kind = "ok"
    THEN [id \in DOMAIN known \cup {result.val.id} |->
            IF id = result.val.id THEN result.val.rev ELSE known[id]]
    ELSE known

\* the server has revisions left to issue
CanWrite == client.transport = "couch" => server.seq < MaxRev

CreateDocs ==
    { Doc([data |-> <<"v1">>]),
      Doc([f \in {"_id", "data"} |-> IF f = "_id" THEN <<"a", "/", "b">> ELSE <<"v1">>]),
      BadDoc }

CreatePutOptionsSet == {NilPutOptions, PutOptions(<<>>, <<>>), PutOptions(<<>>, <<"ok">>)}

CreateDocumentPath(dbName, options) ==
    LET path == <<"/">> \o PathEscape(dbName)
        q1 == QSetIf(options.Batch # <<>>, NoQuery, "batch", options.Batch)
    IN  IF ~options.isNil THEN WithQuery(path, q1) ELSE path

CreateDocumentSuccess == {StatusCreated, StatusAccepted}

CreateDocumentResult(r) ==
    Classify(r, CreateDocumentSuccess, "failed to create document",
             DocumentResponse, "failed to unmarshal response")

CreateDocument(optLists, respSet) ==
    /\ CallerIdle
    /\ CanWrite
    /\ \E dbName \in DbNames, doc \in CreateDocs, options \in CreatePutOptionsSet,
          opts \in optLists :
        LET callRec == [op |-> "CreateDocument", dbName |-> dbName, doc |-> doc,
                        options |-> options, opts |-> opts]
            m == MarshalDoc(doc)
        IN  IF m.err
            THEN /\ Return(callRec, NotDispatched,
                           RetErr(MarshalError("failed to marshal document")))
                 /\ UNCHANGED known
            ELSE \E o \in Outcomes(doRequest(client, "POST",
                                             CreateDocumentPath(dbName, options),
                                             m.body, opts), respSet) :
                    /\ Return(callRec, o, CreateDocumentResult(o.r))
                    /\ known' = Remember(CreateDocumentResult(o.r))

\* the document and the options of an update: the revision goes in the
\* document's _rev or in options.Rev
UpdateInputs ==
    {[doc |-> Doc([f \in {"_rev", "data"} |-> IF f = "_rev" THEN rev ELSE <<"v2">>]),
      options |-> NilPutOptions] : rev \in AllRevs}
        \cup {[doc |-> Doc([data |-> <<"v2">>]), options |-> PutOptions(rev, <<>>)] :
                rev \in AllRevs}
        \cup {[doc |-> Doc([data |-> <<"v2">>]), options |-> NilPutOptions],
              [doc |-> Doc([data |-> <<"v2">>]), options |-> PutOptions(Rev(1), <<"ok">>)],
              [doc |-> BadDoc, options |-> NilPutOptions]}

\* mutant: options.Rev is left out of the query
UpdateDocumentPathNoRev(dbName, docID, options) ==
    LET path == <<"/">> \o PathEscape(dbName) \o <<"/">> \o PathEscape(docID)
        q2 == QSetIf(options.Batch # <<>>, NoQuery, "batch", options.Batch)
    IN  IF ~options.isNil THEN WithQuery(path, q2) ELSE path

UpdateDocumentPath(dbName, docID, options) ==
    LET path == <<"/">> \o PathEscape(dbName) \o <<"/">> \o PathEscape(docID)
        q1 == QSetIf(options.Rev # <<>>, NoQuery, "rev", options.Rev)
        q2 == QSetIf(options.Batch # <<>>, q1, "batch", options.Batch)
    IN  IF ~options.isNil THEN WithQuery(path, q2) ELSE path

UpdateDocumentSuccess == {StatusCreated, StatusAccepted}

UpdateDocumentResult(r) ==
    Classify(r, UpdateDocumentSuccess, "failed to update document",
             DocumentResponse, "failed to unmarshal response")

UpdateDocument(optLists, respSet) ==
    /\ CallerIdle
    /\ CanWrite
    /\ \E dbName \in DbNames, docID \in DocIDs, in \in UpdateInputs, opts \in optLists :
        LET callRec == [op |-> "UpdateDocument", dbName |-> dbName, docID |-> docID,
                        doc |-> in.doc, options |-> in.options, opts |-> opts]
            m == MarshalDoc(in.doc)
        IN  IF m.err
            THEN /\ Return(callRec, NotDispatched,
                           RetErr(MarshalError("failed to marshal document")))
                 /\ UNCHANGED known
            ELSE \E o \in Outcomes(doRequest(client, "PUT",
                                             UpdateDocumentPath(dbName, docID, in.options),
                                             m.body, opts), respSet) :
                    /\ Return(callRec, o, UpdateDocumentResult(o.r))
                    /\ known' = Remember(UpdateDocumentResult(o.r))

----------------------------------------------------------------------------
(* databases.go: UserService *)

UserNames == {<<"john">>, <<"a", "/", "b">>}

Passwords == {<<"s3cret">>, <<>>}

RoleLists == {NilSlice, <<>>, <<"dev", "ops">>}

\* type User struct: the password-related fields at their zero value
ZeroUser ==
    [ID |-> <<>>, Rev |-> <<>>, Name |-> <<>>, Type |-> <<>>, Roles |-> NilSlice,
     Password |-> <<>>, Salt |-> <<>>, DerivedKey |-> <<>>, Iterations |-> <<"0">>,
     PasswordScheme |-> <<>>]

UserTag ==
    [ID |-> "_id", Rev |-> "_rev", Name |-> "name", Type |-> "type", Roles |-> "roles",
     Password |-> "password", Salt |-> "salt", DerivedKey |-> "derived_key",
     Iterations |-> "iterations", PasswordScheme |-> "password_scheme"]

\* the fields tagged omitempty, left out of the document at their zero value
UserOmitEmpty ==
    {"ID", "Rev", "Password", "Salt", "DerivedKey", "Iterations", "PasswordScheme"}

\* mutant: the hashed-password fields are not written to the document
MarshalUserNoHash(user) ==
    LET kept == {f \in DOMAIN UserTag :
                    /\ f \notin {"Salt", "DerivedKey", "Iterations", "PasswordScheme"}
                    /\ f \in UserOmitEmpty => user[f] # ZeroUser[f]}
    IN  JSONBody([tag \in {UserTag[f] : f \in kept} |->
                    user[CHOOSE f \in kept : UserTag[f] = tag]])

\* json.Marshal(user)
MarshalUser(user) ==
    LET kept == {f \in DOMAIN UserTag : f \in UserOmitEmpty => user[f] # ZeroUser[f]}
    IN  JSONBody([tag \in {UserTag[f] : f \in kept} |->
                    user[CHOOSE f \in kept : UserTag[f] = tag]])

\* fmt.Sprintf("org.couchdb.user:%s", name)
UserDocID(name) == <<"org.couchdb.user", ":">> \o name

\* if user.Roles == nil { user.Roles = []string{} }
RolesOrEmpty(roles) == IF roles = NilSlice THEN <<>> ELSE roles

UserResponse == StructTarget([ok |-> "bool", id |-> "str", rev |-> "str"])

UserTarget ==
    StructTarget([_id |-> "str", _rev |-> "str", name |-> "str", type |-> "str",
                  roles |-> "arr", password |-> "str", salt |-> "str",
                  derived_key |-> "str", iterations |-> "num",
                  password_scheme |-> "str"])

UserPath(name) == <<"/", "_users", "/">> \o PathEscape(UserDocID(name))

CreateUserSuccess == {StatusCreated, StatusOK}

CreateUserResult(r) ==
    Classify(r, CreateUserSuccess, "failed to create user",
             UserResponse, "failed to unmarshal response")

CreateUser(optLists, respSet) ==
    /\ CallerIdle
    /\ \E name \in UserNames, password \in Passwords, roles \in RoleLists,
          opts \in optLists :
           LET user == [ZeroUser EXCEPT !.ID = UserDocID(name), !.Name = name,
                                        !.Type = <<"user">>,
                                        !.Roles = RolesOrEmpty(roles),
                                        !.Password = password]
           IN  \E o \in Outcomes(doRequest(client, "POST", <<"/", "_users">>,
                                           MarshalUser(user), opts), respSet) :
                   /\ Return([op |-> "CreateUser", name |-> name, password |-> password,
                              roles |-> roles, opts |-> opts],
                             o, CreateUserResult(o.r))
                   /\ UNCHANGED known

GetUserResult(name, r) ==
    ClassifyFetch(r, "user not found", name, "failed to get user",
                  UserTarget, "failed to unmarshal user")

GetUser(optLists, respSet) ==
    /\ CallerIdle
    /\ \E name \in UserNames, opts \in optLists :
           \E o \in Outcomes(doRequest(client, "GET", UserPath(name), NoBody, opts),
                             respSet) :
               /\ Return([op |-> "GetUser", name |-> name, opts |-> opts],
                         o, GetUserResult(name, o.r))
               /\ UNCHANGED known

\* password *string: nil, or a pointer to a string
PasswordPtrs == {[isNil |-> TRUE, s |-> <<>>], [isNil |-> FALSE, s |-> <<"n3w">>]}

UpdateUserSuccess == {StatusCreated, StatusOK}

UpdateUserResult(r) ==
    Classify(r, UpdateUserSuccess, "failed to update user",
             UserResponse, "failed to unmarshal response")

UpdateUser(optLists, respSet) ==
    /\ CallerIdle
    /\ \E name \in UserNames, rev \in {Rev(1)}, password \in PasswordPtrs,
          roles \in RoleLists, opts \in optLists :
           LET user == [ZeroUser EXCEPT !.ID = UserDocID(name), !.Rev = rev,
                                        !.Name = name, !.Type = <<"user">>,
                                        !.Roles = RolesOrEmpty(roles),
                                        !.Password = IF password.isNil THEN <<>>
                                                     ELSE password.s]
           IN  \E o \in Outcomes(doRequest(client, "PUT", UserPath(name),
                                           MarshalUser(user), opts), respSet) :
                   /\ Return([op |-> "UpdateUser", name |-> name, rev |-> rev,
                              password |-> password, roles |-> roles, opts |-> opts],
                             o, UpdateUserResult(o.r))
                   /\ UNCHANGED known

UpdateRolesSuccess == {StatusCreated, StatusOK}

UpdateRolesResult(r) ==
    Classify(r, UpdateRolesSuccess, "failed to update roles",
             UserResponse, "failed to unmarshal response")

\* mutant: the document is written with the new roles alone
UpdateRolesUserRolesOnly(name, rev, roles, currentUser) ==
    [ZeroUser EXCEPT !.ID = UserDocID(name), !.Rev = rev, !.Name = name,
                     !.Type = <<"user">>, !.Roles = RolesOrEmpty(roles)]

\* user := &User{...}: the caller's revision and roles, the hashed-password
\* fields of the user GetUser returned
UpdateRolesUser(name, rev, roles, currentUser) ==
    [ZeroUser EXCEPT !.ID = UserDocID(name), !.Rev = rev, !.Name = name,
                     !.Type = <<"user">>, !.Roles = RolesOrEmpty(roles),
                     !.Salt = currentUser.salt,
                     !.DerivedKey = currentUser.derived_key,
                     !.Iterations = currentUser.iterations,
                     !.PasswordScheme = currentUser.password_scheme]

\* the two exchanges of UpdateRoles: GetUser, then the PUT of the user with
\* the new roles and the password fields GetUser returned
UpdateRoles(optLists, respSet) ==
    /\ CallerIdle
    /\ \E name \in UserNames, rev \in {Rev(1)}, roles \in RoleLists, opts \in optLists :
           LET callRec == [op |-> "UpdateRoles", name |-> name, rev |-> rev,
                           roles |-> roles, opts |-> opts]
           IN  \E o1 \in Outcomes(doRequest(client, "GET", UserPath(name), NoBody, opts),
                                  respSet) :
                   LET currentUser == GetUserResult(name, o1.r)
                       user == UpdateRolesUser(name, rev, roles, currentUser.val)
                   IN  /\ UNCHANGED known
                       /\ IF currentUser.kind = "err"
                          THEN Return(callRec, o1,
                                      RetErr(OuterError("failed to get user",
                                                        currentUser.err)))
                          ELSE \E o2 \in OutcomesOn(o1.server,
                                                    doRequest(client, "PUT", UserPath(name),
                                                              MarshalUser(user), opts),
                                                    respSet) :
                                   Return(callRec,
                                          [sent |-> o1.sent \o o2.sent, r |-> o2.r,
                                           server |-> o2.server,
                                           resps |-> Answers(o1) \o Answers(o2)],
                                          UpdateRolesResult(o2.r))

----------------------------------------------------------------------------
(* unnamed/part_001: SecurityService *)

\* *SecurityObject: nil, or the admins and the members of a database
SecurityObjects ==
    { [isNil |-> TRUE, admins |-> <<>>, members |-> <<>>],
      [isNil |-> FALSE, admins |-> <<"admin">>, members |-> <<"dev", "ops">>] }

\* json.Marshal(security): a nil pointer encodes as null
MarshalSecurity(security) ==
    IF security.isNil THEN [kind |-> "text", text |-> <<"null">>]
    ELSE JSONBody([admins |-> security.admins, members |-> security.members])

SetSecurityPath(dbName) == <<"/">> \o PathEscape(dbName) \o <<"/", "_security">>

\* SetSecurity returns an error only
SetSecurityResult(r) ==
    IF r.err # "" THEN RetErr(WrappedError("failed to set security", r.err))
    ELSE IF ~r.readOK THEN RetErr(ReadError)
    ELSE IF r.status # StatusOK THEN ErrorFromBody(r, "failed to set security")
    ELSE RetOkNil

SetSecurity(optLists, respSet) ==
    /\ CallerIdle
    /\ \E dbName \in DbNames, security \in SecurityObjects, opts \in optLists :
           \E o \in Outcomes(doRequest(client, "PUT", SetSecurityPath(dbName),
                                       MarshalSecurity(security), opts), respSet) :
               /\ Return([op |-> "SetSecurity", dbName |-> dbName,
                          security |-> security, opts |-> opts],
                         o, SetSecurityResult(o.r))
               /\ UNCHANGED known

----------------------------------------------------------------------------
(* configuration.go: ConfigurationService *)

NodeNames == {<<"_local">>}
Sections == {<<"couchdb">>, <<"a", "/", "b">>}
ConfigKeys == {<<"max_document_size">>}
ConfigValues == {<<"5">>, <<"a", Quote>>, <<>>}

SetConfigurationValuePath(nodeName, section, key) ==
    <<"/", "_node", "/">> \o PathEscape(nodeName) \o <<"/", "_config", "/">>
        \o PathEscape(section) \o <<"/">> \o PathEscape(key)

SetConfigurationValueResult(r) ==
    Classify(r, {StatusOK}, "failed to set configuration value",
             StringTarget, "failed to unmarshal old value")

SetConfigurationValue(optLists, respSet) ==
    /\ CallerIdle
    /\ \E nodeName \in NodeNames, section \in Sections, key \in ConfigKeys,
          value \in ConfigValues, opts \in optLists :
           \E o \in Outcomes(doRequest(client, "PUT",
                                       SetConfigurationValuePath(nodeName, section, key),
                                       [kind |-> "text", text |-> MarshalString(value)],
                                       opts), respSet) :
               /\ Return([op |-> "SetConfigurationValue", nodeName |-> nodeName,
                          section |-> section, key |-> key, value |-> value,
                          opts |-> opts],
                         o, SetConfigurationValueResult(o.r))
               /\ UNCHANGED known

----------------------------------------------------------------------------
(* unnamed/part_000: DesignDocumentService.QueryView *)

DesignDocs == {<<"app">>}
ViewNames == {<<"by_name">>, <<"a", "/", "b">>}

\* the values of a view key: strings, numbers, an array, and a value
\* encoding/json rejects
ViewKeys ==
    { AnyStr(<<"a">>), AnyStr(<<"a", Quote>>), AnyStr(<<Backslash>>), AnyStr(<<>>),
      AnyNum(5), AnyNum(0), AnyArr(<<AnyStr(<<"a">>), AnyNum(1)>>), AnyArr(<<>>),
      AnyChan }

\* ViewOptions with every field at its zero value; Reduce is a *bool:
\* "nil", "true" or "false"
ZeroViewOptions ==
    [isNil |-> FALSE, Conflicts |-> FALSE, Descending |-> FALSE, EndKey |-> AnyNil,
     EndKeyDocID |-> <<>>, Group |-> FALSE, GroupLevel |-> 0, IncludeDocs |-> FALSE,
     InclusiveEnd |-> FALSE, Key |-> AnyNil, Keys |-> <<>>, Limit |-> 0,
     Reduce |-> "nil", Skip |-> 0, Sorted |-> FALSE, Stable |-> FALSE,
     Stale |-> <<>>, StartKey |-> AnyNil, StartKeyDocID |-> <<>>, Update |-> <<>>,
     UpdateSeq |-> FALSE]

NilViewOptions == [ZeroViewOptions EXCEPT !.isNil = TRUE]

ViewKeyLists == {<<AnyStr(<<"d1">>)>>, <<AnyStr(<<"d2">>), AnyNum(5)>>}

ViewOptionsSet ==
    {NilViewOptions, ZeroViewOptions}
        \cup {[ZeroViewOptions EXCEPT !.Key = k] : k \in ViewKeys}
        \cup {[ZeroViewOptions EXCEPT !.StartKey = k] : k \in ViewKeys}
        \cup {[ZeroViewOptions EXCEPT !.EndKey = k] : k \in ViewKeys}
        \cup {[ZeroViewOptions EXCEPT !.Keys = ks, !.IncludeDocs = inc] :
                ks \in ViewKeyLists, inc \in BOOLEAN}
        \cup {[ZeroViewOptions EXCEPT !.Reduce = red] : red \in {"true", "false"}}
        \cup {[ZeroViewOptions EXCEPT !.Keys = <<AnyStr(<<"d1">>)>>, !.Key = AnyNum(5),
                                      !.Limit = 2]}
        \cup {[ZeroViewOptions EXCEPT !.Conflicts = TRUE, !.Descending = TRUE,
                                      !.Group = TRUE, !.GroupLevel = 2,
                                      !.InclusiveEnd = TRUE, !.Limit = 2, !.Skip = 1,
                                      !.Sorted = TRUE, !.Stable = TRUE,
                                      !.Stale = <<"ok">>, !.Update = <<"lazy">>,
                                      !.UpdateSeq = TRUE, !.StartKeyDocID = <<"d1">>,
                                      !.EndKeyDocID = <<"d2">>,
                                      !.StartKey = AnyStr(<<"a">>),
                                      !.EndKey = AnyArr(<<AnyStr(<<"a">>), AnyNum(1)>>)]}

ViewResponse ==
    StructTarget([offset |-> "num", total_rows |-> "num", rows |-> "arr",
                  update_seq |-> "str"])

\* mutant: the key is put between quotes the way AllDocs does it
ViewKeyQuoted(key) ==
    SprintfQuoted(IF key.t = "str" THEN key.s ELSE Marshal(key).bytes)

\* keyJSON, _ := json.Marshal(key); string(keyJSON)
ViewKeyParam(key) == Marshal(key).bytes

\* mutant: reduce is a plain bool with omitempty, false is left out
ReduceParamOmitEmpty(q, reduce) == QSetIf(reduce = "true", q, "reduce", <<"true">>)

\* if options.Reduce != nil { if *options.Reduce { query.Set("reduce", "true") }
\*                            else { query.Set("reduce", "false") } }
ReduceParam(q, reduce) ==
    QSetIf(reduce # "nil", q, "reduce",
           IF reduce = "true" THEN <<"true">> ELSE <<"false">>)

QueryViewPath(dbName, ddoc, viewName, options) ==
    LET path == <<"/">> \o PathEscape(dbName) \o <<"/", "_design", "/">>
                    \o PathEscape(ddoc) \o <<"/", "_view", "/">> \o PathEscape(viewName)
        q1 == QSetIf(options.Conflicts, NoQuery, "conflicts", <<"true">>)
        q2 == QSetIf(options.Descending, q1, "descending", <<"true">>)
        q3 == QSetIf(options.EndKey # AnyNil, q2, "endkey", ViewKeyParam(options.EndKey))
        q4 == QSetIf(options.EndKeyDocID # <<>>, q3, "endkey_docid", options.EndKeyDocID)
        q5 == QSetIf(options.Group, q4, "group", <<"true">>)
        q6 == QSetIf(options.GroupLevel > 0, q5, "group_level", Itoa(options.GroupLevel))
        q7 == QSetIf(options.IncludeDocs, q6, "include_docs", <<"true">>)
        q8 == QSetIf(options.InclusiveEnd, q7, "inclusive_end", <<"true">>)
        q9 == QSetIf(options.Key # AnyNil, q8, "key", ViewKeyParam(options.Key))
        q10 == QSetIf(options.Limit > 0, q9, "limit", Itoa(options.Limit))
        q11 == ReduceParam(q10, options.Reduce)
        q12 == QSetIf(options.Skip > 0, q11, "skip", Itoa(options.Skip))
        q13 == QSetIf(options.Sorted, q12, "sorted", <<"true">>)
        q14 == QSetIf(options.Stable, q13, "stable", <<"true">>)
        q15 == QSetIf(options.Stale # <<>>, q14, "stale", options.Stale)
        q16 == QSetIf(options.StartKey # AnyNil, q15, "startkey",
                      ViewKeyParam(options.StartKey))
        q17 == QSetIf(options.StartKeyDocID # <<>>, q16, "startkey_docid",
                      options.StartKeyDocID)
        q18 == QSetIf(options.Update # <<>>, q17, "update", options.Update)
        q19 == QSetIf(options.UpdateSeq, q18, "update_seq", <<"true">>)
    IN  IF ~options.isNil THEN WithQuery(path, q19) ELSE path

QueryViewResult(r) ==
    Classify(r, {StatusOK}, "failed to query view",
             ViewResponse, "failed to unmarshal response")

\* options.Keys is read nowhere: the request is a GET without a body
QueryView(optLists, respSet) ==
    /\ CallerIdle
    /\ \E dbName \in DbNames, ddoc \in DesignDocs, viewName \in ViewNames,
          options \in ViewOptionsSet, opts \in optLists :
           \E o \in Outcomes(doRequest(client, "GET",
                                       QueryViewPath(dbName, ddoc, viewName, options),
                                       NoBody, opts), respSet) :
               /\ Return([op |-> "QueryView", dbName |-> dbName, ddoc |-> ddoc,
                          viewName |-> viewName, options |-> options, opts |-> opts],
                         o, QueryViewResult(o.r))
               /\ UNCHANGED known

----------------------------------------------------------------------------
(* databases.go: UserService.UpdatePassword *)

NewPasswords == {<<"n3w">>, <<>>}

\* the two exchanges of UpdatePassword: GetUser, then UpdateUser with the
\* address of the new password and the roles GetUser returned
UpdatePassword(optLists, respSet) ==
    /\ CallerIdle
    /\ \E name \in UserNames, rev \in {Rev(1)}, newPassword \in NewPasswords,
          opts \in optLists :
           LET callRec == [op |-> "UpdatePassword", name |-> name, rev |-> rev,
                           newPassword |-> newPassword, opts |-> opts]
           IN  \E o1 \in Outcomes(doRequest(client, "GET", UserPath(name), NoBody, opts),
                                  respSet) :
                   LET fetched == GetUserResult(name, o1.r)
                       user == [ZeroUser EXCEPT
                                   !.ID = UserDocID(name), !.Rev = rev, !.Name = name,
                                   !.Type = <<"user">>,
                                   !.Roles = RolesOrEmpty(fetched.val.roles),
                                   !.Password = newPassword]
                   IN  /\ UNCHANGED known
                       /\ IF fetched.kind = "err"
                          THEN Return(callRec, o1,
                                      RetErr(OuterError("failed to get user", fetched.err)))
                          ELSE \E o2 \in OutcomesOn(o1.server,
                                                    doRequest(client, "PUT", UserPath(name),
                                                              MarshalUser(user), opts),
                                                    respSet) :
                                   Return(callRec,
                                          [sent |-> o1.sent \o o2.sent, r |-> o2.r,
                                           server |-> o2.server,
                                           resps |-> Answers(o1) \o Answers(o2)],
                                          UpdateUserResult(o2.r))

----------------------------------------------------------------------------
(* databases.go: SessionService *)

LoginResponse == StructTarget([ok |-> "bool", name |-> "str", roles |-> "arr"])

BodyLogin ==
    Body("object", <<"{\"ok\":true,\"name\":\"john\",\"roles\":[\"dev\"]}">>,
         [ok |-> JField("bool", <<"true">>), name |-> JField("str", <<"john">>),
          roles |-> JField("arr", <<"[\"dev\"]">>)])

\* the Set-Cookie lines of a response, each the cookie's name and the raw
\* characters of its value; a response built without them has none
SetCookies(r) == IF "setCookie" \in DOMAIN r THEN r.setCookie ELSE <<>>

WithSetCookie(r, lines) ==
    [f \in DOMAIN r \cup {"setCookie"} |-> IF f = "setCookie" THEN lines ELSE r[f]]

\* http.Response.Cookies: the parsed Set-Cookie lines, those with an invalid
\* value left out
ValidSetCookie(line) == ParseCookieValue(Tail(line)).ok

ReadSetCookie(line) == <<Head(line)>> \o ParseCookieValue(Tail(line)).val

Cookies(r) ==
    LET valid == SelectSeq(SetCookies(r), ValidSetCookie)
    IN  [i \in 1..Len(valid) |-> ReadSetCookie(valid[i])]

\* mutant: the loop does not break, the last cookie of that name is returned
RECURSIVE LastNamed(_, _)
LastNamed(cookies, name) ==
    IF cookies = <<>> THEN <<>>
    ELSE IF CookieName(cookies[Len(cookies)]) = name THEN cookies[Len(cookies)]
    ELSE LastNamed(SubSeq(cookies, 1, Len(cookies) - 1), name)

\* the loop of Login over resp.Cookies(): the first cookie named AuthSession,
\* nil when there is none
RECURSIVE FirstNamed(_, _)
FirstNamed(cookies, name) ==
    IF cookies = <<>> THEN <<>>
    ELSE IF CookieName(Head(cookies)) = name THEN Head(cookies)
    ELSE FirstNamed(Tail(cookies), name)

SessionCookie(r) == FirstNamed(Cookies(r), "AuthSession")

\* a result with the *http.Cookie Login returns beside it
WithCookie(result, cookie) ==
    [f \in DOMAIN result \cup {"cookie"} |-> IF f = "cookie" THEN cookie ELSE result[f]]

LoginResult(r) ==
    LET res == Classify(r, {StatusOK}, "failed to login",
                        LoginResponse, "failed to unmarshal response")
    IN  WithCookie(res, IF res.kind = "ok" THEN SessionCookie(r) ELSE <<>>)

\* json.Marshal(map[string]string{"name": username, "password": password})
LoginBody(username, password) ==
    JSONBody([name |-> username, password |-> password])

SessionPath == <<"/", "_session">>

Login(optLists, respSet) ==
    /\ CallerIdle
    /\ \E username \in UserNames, password \in Passwords, opts \in optLists :
           \E o \in Outcomes(doRequest(client, "POST", SessionPath,
                                       LoginBody(username, password), opts), respSet) :
               /\ Return([op |-> "Login", name |-> username, password |-> password,
                          opts |-> opts],
                         o, LoginResult(o.r))
               /\ UNCHANGED known

SessionInfo == StructTarget([ok |-> "bool", info |-> "obj", userCtx |-> "obj"])

GetSessionResult(r) ==
    Classify(r, {StatusOK}, "failed to get session",
             SessionInfo, "failed to unmarshal session info")

GetSession(optLists, respSet) ==
    /\ CallerIdle
    /\ \E opts \in optLists :
           \E o \in Outcomes(doRequest(client, "GET", SessionPath, NoBody, opts),
                             respSet) :
               /\ Return([op |-> "GetSession", opts |-> opts], o, GetSessionResult(o.r))
               /\ UNCHANGED known

\* Logout returns an error only
LogoutResult(r) ==
    LET res == Classify(r, {StatusOK}, "failed to logout", MapTarget, "")
    IN  IF res.kind = "err" /\ res.err.type # "decode" THEN res ELSE RetOkNil

Logout(optLists, respSet) ==
    /\ CallerIdle
    /\ \E opts \in optLists :
           \E o \in Outcomes(doRequest(client, "DELETE", SessionPath, NoBody, opts),
                             respSet) :
               /\ Return([op |-> "Logout", opts |-> opts], o, LogoutResult(o.r))
               /\ UNCHANGED known

\* the revisions a caller passes to a delete: one it knows, or none
DeleteRevs == {Rev(1), <<>>}

\* fmt.Sprintf("/%s/%s?rev=%s", url.PathEscape(dbName), url.PathEscape(docID),
\*             url.QueryEscape(rev))
DeleteDocumentPath(dbName, docID, rev) ==
    <<"/">> \o PathEscape(dbName) \o <<"/">> \o PathEscape(docID)
        \o <<"?", "rev", "=">> \o QueryEscape(rev)

DeleteDocumentResult(r) ==
    Classify(r, {StatusOK}, "failed to delete document",
             DocumentResponse, "failed to unmarshal response")

DeleteDocument(optLists, respSet) ==
    /\ CallerIdle
    /\ \E dbName \in DbNames, docID \in DocIDs, rev \in DeleteRevs, opts \in optLists :
           \E o \in Outcomes(doRequest(client, "DELETE",
                                       DeleteDocumentPath(dbName, docID, rev),
                                       NoBody, opts), respSet) :
               /\ Return([op |-> "DeleteDocument", dbName |-> dbName, docID |-> docID,
                          rev |-> rev, opts |-> opts],
                         o, DeleteDocumentResult(o.r))
               /\ UNCHANGED known

\* fmt.Sprintf("/_users/%s?rev=%s", url.PathEscape(docID), url.QueryEscape(rev))
DeleteUserPath(name, rev) ==
    UserPath(name) \o <<"?", "rev", "=">> \o QueryEscape(rev)

DeleteUserResult(r) ==
    Classify(r, {StatusOK}, "failed to delete user",
             UserResponse, "failed to unmarshal response")

DeleteUser(optLists, respSet) ==
    /\ CallerIdle
    /\ \E name \in UserNames, rev \in DeleteRevs, opts \in optLists :
           \E o \in Outcomes(doRequest(client, "DELETE", DeleteUserPath(name, rev),
                                       NoBody, opts), respSet) :
               /\ Return([op |-> "DeleteUser", name |-> name, rev |-> rev,
                          opts |-> opts],
                         o, DeleteUserResult(o.r))
               /\ UNCHANGED known

----------------------------------------------------------------------------
(* HEAD operations: the status and the ETag header, the body is not read *)

\* longest ETag header value the transport answers with
MaxETag == 3

\* resp.Header.Get("ETag"): the header's value, "" when the response has none
ETag(r) == IF "etag" \in DOMAIN r THEN r.etag ELSE <<>>

WithETag(r, etag) ==
    [f \in DOMAIN r \cup {"etag"} |-> IF f = "etag" THEN etag ELSE r[f]]

\* mutant: the quotes are cut off without looking at the length
StripETagAnyLength(etag) ==
    IF etag # <<>> /\ etag[1] = Quote /\ etag[Len(etag)] = Quote
    THEN SubSeq(etag, 2, Len(etag) - 1)
    ELSE etag

\* if len(etag) >= 2 && etag[0] == '"' && etag[len(etag)-1] == '"' {
\*     etag = etag[1 : len(etag)-1] }
StripETag(etag) ==
    IF etag # <<>> /\ Len(etag) >= 2 /\ etag[1] = Quote /\ etag[Len(etag)] = Quote
    THEN SubSeq(etag, 2, Len(etag) - 1)
    ELSE etag

\* fmt.Errorf("request failed with status %d", resp.StatusCode)
StatusOnlyError(status) ==
    [NoErr EXCEPT !.type = "status", !.msg = "request failed with status",
                  !.status = status]

\* a returned string or bool beside a nil error
RetValue(v) == RetOk([f \in {"value"} |-> v])

HeadOptionsSet ==
    { [ZeroGetOptions EXCEPT !.isNil = TRUE],
      ZeroGetOptions,
      [ZeroGetOptions EXCEPT !.Rev = Rev(1)],
      [ZeroGetOptions EXCEPT !.Revs = TRUE] }

HeadDocumentPath(dbName, docID, options) ==
    LET path == <<"/">> \o PathEscape(dbName) \o <<"/">> \o PathEscape(docID)
    IN  IF ~options.isNil /\ options.Rev # <<>>
        THEN path \o <<"?", "rev", "=">> \o QueryEscape(options.Rev)
        ELSE path

HeadDocumentResult(dbName, docID, r) ==
    IF r.err # "" THEN RetErr(WrappedError("failed to head document", r.err))
    ELSE IF r.status = StatusNotFound
         THEN RetErr(NotFoundError("document not found", dbName \o <<"/">> \o docID))
    ELSE IF r.status # StatusOK THEN RetErr(StatusOnlyError(r.status))
    ELSE RetValue(StripETag(ETag(r)))

HeadDocument(optLists, respSet) ==
    /\ CallerIdle
    /\ \E dbName \in DbNames, docID \in DocIDs, options \in HeadOptionsSet,
          opts \in optLists :
           \E o \in Outcomes(doRequest(client, "HEAD",
                                       HeadDocumentPath(dbName, docID, options),
                                       NoBody, opts), respSet) :
               /\ Return([op |-> "HeadDocument", dbName |-> dbName, docID |-> docID,
                          options |-> options, opts |-> opts],
                         o, HeadDocumentResult(dbName, docID, o.r))
               /\ UNCHANGED known

\* fmt.Errorf("unexpected status code: %d", resp.StatusCode)
UnexpectedStatusError(status) ==
    [NoErr EXCEPT !.type = "status", !.msg = "unexpected status code",
                  !.status = status]

\* mutant: a missing database is an error, as it is for GetDatabase
DatabaseExistsNotFoundIsError(r) ==
    IF r.err # "" THEN RetErr(WrappedError("failed to check database", r.err))
    ELSE IF r.status = StatusOK THEN RetValue(<<"true">>)
    ELSE RetErr(UnexpectedStatusError(r.status))

\* the switch on resp.StatusCode; beside an error the bool is false
DatabaseExistsResult(r) ==
    IF r.err # "" THEN RetErr(WrappedError("failed to check database", r.err))
    ELSE IF r.status = StatusOK THEN RetValue(<<"true">>)
    ELSE IF r.status = StatusNotFound THEN RetValue(<<"false">>)
    ELSE RetErr(UnexpectedStatusError(r.status))

DatabaseExists(optLists, respSet) ==
    /\ CallerIdle
    /\ \E dbName \in DbNames, opts \in optLists :
           \E o \in Outcomes(doRequest(client, "HEAD", <<"/">> \o PathEscape(dbName),
                                       NoBody, opts), respSet) :
               /\ Return([op |-> "DatabaseExists", dbName |-> dbName, opts |-> opts],
                         o, DatabaseExistsResult(o.r))
               /\ UNCHANGED known

----------------------------------------------------------------------------
(* Specifications *)

\* the caller has taken the result and is free to make its next call
NextCall ==
    /\ call # Idle
    /\ call' = Idle
    /\ sent' = <<>>
    /\ resps' = <<>>
    /\ ret' = RetNone
    /\ UNCHANGED <<client, server, known, held, procs>>

Init ==
    /\ client = NewClient(BaseURL, "mock")
    /\ call = Idle
    /\ sent = <<>>
    /\ resps = <<>>
    /\ ret = RetNone
    /\ server = EmptyServer
    /\ known = [id \in {} |-> <<>>]
    /\ held = <<>>
    /\ procs = NoProcs

Next ==
    \/ GetDatabase(FewOptLists, MockResponses)
    \/ CreateDatabase(FewOptLists, MockResponses)
    \/ BulkInsert(FewOptLists, MockResponses)
    \/ BulkUpdate(FewOptLists, MockResponses)
    \/ AllDocs(FewOptLists, MockResponses)
    \/ GetDocument(FewOptLists, MockResponses)
    \/ CreateDocument(FewOptLists, MockResponses)
    \/ UpdateDocument(FewOptLists, MockResponses)
    \/ CreateUser(FewOptLists, MockResponses)
    \/ GetUser(FewOptLists, MockResponses)
    \/ UpdateUser(FewOptLists, MockResponses)
    \/ UpdateRoles(FewOptLists, MockResponses)
    \/ UpdatePassword(FewOptLists, MockResponses)
    \/ SetSecurity(FewOptLists, MockResponses)
    \/ SetConfigurationValue(FewOptLists, MockResponses)
    \/ QueryView(FewOptLists, MockResponses)
    \/ Login(FewOptLists, MockResponses)
    \/ Logout(FewOptLists, MockResponses)
    \/ GetSession(FewOptLists, MockResponses)
    \/ DeleteDocument(FewOptLists, MockResponses)
    \/ DeleteUser(FewOptLists, MockResponses)
    \/ HeadDocument(FewOptLists, MockResponses)
    \/ DatabaseExists(FewOptLists, MockResponses)
    \/ NextCall

Spec == Init /\ [][Next]_vars

----------------------------------------------------------------------------
(* Concurrent calls through one Client *)

\* number of goroutines calling through the client at the same time
MaxProcs == 2

Goroutines == 1..MaxProcs

\* the option lists the concurrent calls are given
ConcOptLists ==
    { <<>>,
      <<WithBasicAuth("admin", "adminpass")>>,
      <<WithCookieAuth(<<"AuthSession", "abc123">>)>>,
      <<WithProxyAuth("proxyuser", <<"r1", "r2">>, "s3cret")>>,
      <<WithJWTAuth("eyJ.tok")>>,
      <<WithBasicAuth("admin", "adminpass"), WithJWTAuth("eyJ.tok")>>,
      <<WithFailingAuth>> }

NoRequest ==
    [method |-> "", url |-> <<>>, path |-> <<>>, body |-> NoBody, header |-> NoHeader]

\* a goroutine outside doRequest
IdleProc == [pc |-> "idle", opts |-> <<>>, req |-> NoRequest, wire |-> NoRequest]

\* mutant: every call writes to and sends one request shared by all
SharedRequest(g) == 1

\* req is a local variable of doRequest: each call works on its own request
OwnRequest(g) == g

\* req, err := http.NewRequestWithContext(ctx, method, reqURL, body)
NewRequest(g) ==
    /\ procs[g].pc = "idle"
    /\ \E opts \in ConcOptLists, method \in {"GET", "DELETE"} :
           procs' = [procs EXCEPT
                        ![g] = [pc |-> "built", opts |-> opts, wire |-> NoRequest,
                                req |-> [method |-> method,
                                         url |-> client.baseURL \o SessionPath,
                                         path |-> SessionPath,
                                         body |-> NoBody,
                                         header |-> NoHeader]]]
    /\ UNCHANGED <<client, call, sent, resps, ret, server, known, held>>

\* if len(opts) > 0 { ... authenticator.Authenticate(req) ... }
\* req.Header.Set("Content-Type", "application/json")
ApplyOptions(g) ==
    /\ procs[g].pc = "built"
    /\ LET own == OwnRequest(g)
           auth == IF Len(procs[g].opts) > 0
                   THEN Authenticate(SelectedOption(procs[g].opts), procs[own].req.header)
                   ELSE [err |-> FALSE, header |-> procs[own].req.header]
       IN  procs' = IF auth.err
                    THEN [procs EXCEPT ![g].pc = "failed"]
                    ELSE [procs EXCEPT
                             ![own].req.header =
                                 HeaderSet(auth.header, HContentType,
                                           <<"application/json">>),
                             ![g].pc = "ready"]
    /\ UNCHANGED <<client, call, sent, resps, ret, server, known, held>>

\* return c.client.Do(req): the request is handed to the transport
Do(g) ==
    /\ procs[g].pc = "ready"
    /\ procs' = [procs EXCEPT ![g].pc = "inflight",
                              ![g].wire = procs[OwnRequest(g)].req]
    /\ UNCHANGED <<client, call, sent, resps, ret, server, known, held>>

\* the transport answers, or doRequest returned the authenticator's error
Returned(g) ==
    /\ procs[g].pc \in {"inflight", "failed"}
    /\ procs' = [procs EXCEPT ![g] = IdleProc]
    /\ UNCHANGED <<client, call, sent, resps, ret, server, known, held>>

InitConc ==
    /\ client = NewClient(BaseURL, "mock")
    /\ call = Idle
    /\ sent = <<>>
    /\ resps = <<>>
    /\ ret = RetNone
    /\ server = EmptyServer
    /\ known = [id \in {} |-> <<>>]
    /\ held = <<>>
    /\ procs = [g \in Goroutines |-> IdleProc]

NextConc ==
    \E g \in Goroutines :
        \/ NewRequest(g)
        \/ ApplyOptions(g)
        \/ Do(g)
        \/ Returned(g)

SpecConc == InitConc /\ [][NextConc]_vars

----------------------------------------------------------------------------
(* Cancellation of the caller's context *)

\* an answer of the transport marked as the outcome of a cancelled context
CtxCanceled(r) ==
    [f \in DOMAIN r \cup {"ctx"} |-> IF f = "ctx" THEN "canceled" ELSE r[f]]

\* The context is cancelled before client.Do returns (before the exchange or
\* while waiting for the response header): Do returns the context's error.
\* It is cancelled after Do returned: io.ReadAll of the body fails with it.
CancelResponses ==
    {CtxCanceled([TransportFailure EXCEPT !.err = "canceled"])}
        \cup {CtxCanceled(Response(st, b, FALSE)) :
                 st \in {200, 201}, b \in {BodyOK, BodyUser}}

\* the answers to the exchanges before the cancellation
LiveResponses == {Response(200, BodyOK, TRUE), Response(200, BodyUser, TRUE)}

NextCancel ==
    \/ GetDatabase(FewOptLists, CancelResponses \cup LiveResponses)
    \/ AllDocs(FewOptLists, CancelResponses \cup LiveResponses)
    \/ GetDocument(FewOptLists, CancelResponses \cup LiveResponses)
    \/ CreateDocument(FewOptLists, CancelResponses \cup LiveResponses)
    \/ UpdateRoles(FewOptLists, CancelResponses \cup LiveResponses)
    \/ Login(FewOptLists, CancelResponses \cup LiveResponses)
    \/ NextCall

SpecCancel == Init /\ [][NextCancel]_vars

----------------------------------------------------------------------------
(* The authenticators applied to requests that already have headers *)

\* headers a request may hold before an authenticator is applied
PriorHeaders ==
    [Authorization |-> <<"Basic ", "old">>,
     Cookie |-> <<"lang", "=", "en">>,
     X_Auth_CouchDB_UserName |-> <<"olduser">>,
     X_Auth_CouchDB_Roles |-> <<"oldrole">>,
     X_Auth_CouchDB_Token |-> <<"oldtoken">>,
     Accept |-> <<"application/json">>]

PriorHeaderName ==
    [Authorization |-> HAuthorization, Cookie |-> HCookie,
     X_Auth_CouchDB_UserName |-> HProxyUser, X_Auth_CouchDB_Roles |-> HProxyRoles,
     X_Auth_CouchDB_Token |-> HProxyToken, Accept |-> "Accept"]

HeaderOf(fields) ==
    [k \in {PriorHeaderName[f] : f \in fields} |->
        PriorHeaders[CHOOSE f \in fields : PriorHeaderName[f] = k]]

PriorRequests ==
    { [method |-> m, url |-> NewClient(BaseURL, "mock").baseURL \o p, path |-> p,
       body |-> b, header |-> HeaderOf(fs)] :
        m \in {"GET", "PUT"}, p \in {SessionPath}, b \in {NoBody},
        fs \in SUBSET DOMAIN PriorHeaders }

\* the options built by the library's four With...Auth functions
LibraryOptions == AuthOptions \ {WithFailingAuth}

\* opt().Authenticate(req) on a request of the caller
ApplyAuthenticator ==
    /\ CallerIdle
    /\ \E a \in LibraryOptions, req \in PriorRequests :
           /\ call' = [op |-> "Authenticate", a |-> a, req |-> req, opts |-> <<a>>]
           /\ sent' = <<AuthenticateRequest(a, req).req>>
           /\ ret' = IF AuthenticateRequest(a, req).err
                     THEN RetErr(BareError("auth")) ELSE RetOkNil
    /\ UNCHANGED <<client, resps, server, known, held, procs>>

NextApply ==
    \/ ApplyAuthenticator
    \/ NextCall

SpecApply == Init /\ [][NextApply]_vars

----------------------------------------------------------------------------
(* The paths of the endpoints, built from names that need escaping *)

\* longest name put into a path segment
MaxSegLen == 2

\* names over a letter and the characters that delimit the parts of a URL
HardNames == StrsUpTo({"a", "/", "?", "#", "%"}, MaxSegLen)

OtherNames == {<<"db">>, <<"/">>, <<"?", "x", "#">>}

Endpoints == {"database", "document", "bulk", "allDocs", "view", "config", "user"}

\* the path an operation of the endpoint builds from the names a, b, c
EndpointPath(endpoint, a, b, c) ==
    CASE endpoint = "database" -> <<"/">> \o PathEscape(a)
      [] endpoint = "document" ->
            GetDocumentPath(a, b, [ZeroGetOptions EXCEPT !.Revs = TRUE])
      [] endpoint = "bulk" -> BulkPath(a)
      [] endpoint = "allDocs" -> AllDocsGetPath(a, NilAllDocsOptions)
      [] endpoint = "view" ->
            QueryViewPath(a, b, c, [ZeroViewOptions EXCEPT !.Reduce = "false"])
      [] endpoint = "config" -> SetConfigurationValuePath(a, b, c)
      [] OTHER -> UserPath(a)

\* the path is built and put into a request, as every operation does first
BuildPath ==
    /\ CallerIdle
    /\ \E endpoint \in Endpoints, a \in HardNames, b \in OtherNames, c \in OtherNames,
          order \in {1, 2, 3} :
           LET n == IF order = 1 THEN <<a, b, c>>
                    ELSE IF order = 2 THEN <<b, a, c>> ELSE <<b, c, a>>
           IN  /\ call' = [op |-> "BuildPath", endpoint |-> endpoint, names |-> n,
                           opts |-> <<>>]
               /\ sent' = <<doRequest(client, "GET",
                                      EndpointPath(endpoint, n[1], n[2], n[3]),
                                      NoBody, <<>>).req>>
               /\ ret' = RetNone
    /\ UNCHANGED <<client, resps, server, known, held, procs>>

NextPath ==
    \/ BuildPath
    \/ NextCall

SpecPath == Init /\ [][NextPath]_vars

\* the round trip: document operations against the "couch" transport
InitCouch ==
    /\ client = NewClient(BaseURL, "couch")
    /\ call = Idle
    /\ sent = <<>>
    /\ resps = <<>>
    /\ ret = RetNone
    /\ server = EmptyServer
    /\ known = [id \in {} |-> <<>>]
    /\ held = <<>>
    /\ procs = NoProcs

NextCouch ==
    \/ CreateDocument(FewOptLists, MockResponses)
    \/ GetDocument(FewOptLists, MockResponses)
    \/ UpdateDocument(FewOptLists, MockResponses)
    \/ NextCall

SpecCouch == InitCouch /\ [][NextCouch]_vars


\* every operation under every option list, the transport answering little
NextAuth ==
    \/ GetDatabase(AllOptLists, FewResponses)
    \/ CreateDatabase(AllOptLists, FewResponses)
    \/ BulkInsert(AllOptLists, FewResponses)
    \/ BulkUpdate(AllOptLists, FewResponses)
    \/ AllDocs(AllOptLists, FewResponses)
    \/ GetDocument(AllOptLists, FewResponses)
    \/ CreateDocument(AllOptLists, FewResponses)
    \/ UpdateDocument(AllOptLists, FewResponses)
    \/ CreateUser(AllOptLists, FewResponses)
    \/ GetUser(AllOptLists, FewResponses)
    \/ UpdateUser(AllOptLists, FewResponses)
    \/ UpdateRoles(AllOptLists, FewResponses)
    \/ UpdatePassword(AllOptLists, FewResponses)
    \/ SetSecurity(AllOptLists, FewResponses)
    \/ SetConfigurationValue(AllOptLists, FewResponses)
    \/ QueryView(AllOptLists, FewResponses)
    \/ Login(AllOptLists, FewResponses)
    \/ Logout(AllOptLists, FewResponses)
    \/ GetSession(AllOptLists, FewResponses)
    \/ DeleteDocument(AllOptLists, FewResponses)
    \/ DeleteUser(AllOptLists, FewResponses)
    \/ HeadDocument(AllOptLists, FewResponses)
    \/ DatabaseExists(AllOptLists, FewResponses)
    \/ NextCall

SpecAuth == Init /\ [][NextAuth]_vars


\* the Set-Cookie lines the transport answers a login with
SetCookieLines ==
    { <<>>,
      << <<"AuthSession", "a", "b", "c">> >>,
      << <<"other", "x">>, <<"AuthSession", Quote, "a", " ", "b", Quote>> >>,
      << <<"AuthSession", "x", "1">>, <<"AuthSession", "x", "2">> >>,
      << <<"AuthSession", "a", "\\">>, <<"AuthSession", "o", "k">> >> }

LoginResponses ==
    {TransportFailure}
        \cup {WithSetCookie(Response(st, b, TRUE), lines) :
                 st \in {200, 401}, b \in {BodyLogin, BodyNull, BodyNotJSON},
                 lines \in SetCookieLines}

\* what the caller passes after a login: nothing, or the cookie it holds
HeldOptLists ==
    {<<>>} \cup (IF held # <<>> THEN {<<WithCookieAuth(held)>>} ELSE {})

\* sessions: logins answered with Set-Cookie lines, and the calls after them
NextSession ==
    \/ Login(HeldOptLists, LoginResponses)
    \/ Logout(HeldOptLists, FewResponses)
    \/ GetSession(HeldOptLists, FewResponses)
    \/ GetDatabase(HeldOptLists, FewResponses)
    \/ NextCall

SpecSession == Init /\ [][NextSession]_vars

\* the ETag header values of the answers to a HEAD
ETags == StrsUpTo({Quote, "1", "W"}, MaxETag)

HeadResponses ==
    {TransportFailure}
        \cup {WithETag(Response(st, BodyNull, TRUE), e) :
                 st \in {200, 304, 404, 500}, e \in ETags}

\* the HEAD operations, answered with every status and ETag
NextHead ==
    \/ HeadDocument(FewOptLists, HeadResponses)
    \/ DatabaseExists(FewOptLists, HeadResponses)
    \/ NextCall

SpecHead == Init /\ [][NextHead]_vars

\* the options of a call whose authenticator sets a Content-Type of its own
TypedOptLists ==
    { <<>>,
      <<WithBasicAuth("admin", "adminpass")>>,
      <<WithCustomAuth>>,
      <<WithBasicAuth("admin", "adminpass"), WithCustomAuth>> }

\* every operation, with and without such an authenticator
NextType ==
    \/ GetDatabase(TypedOptLists, FewResponses)
    \/ CreateDatabase(TypedOptLists, FewResponses)
    \/ BulkInsert(TypedOptLists, FewResponses)
    \/ BulkUpdate(TypedOptLists, FewResponses)
    \/ AllDocs(TypedOptLists, FewResponses)
    \/ GetDocument(TypedOptLists, FewResponses)
    \/ CreateDocument(TypedOptLists, FewResponses)
    \/ UpdateDocument(TypedOptLists, FewResponses)
    \/ CreateUser(TypedOptLists, FewResponses)
    \/ GetUser(TypedOptLists, FewResponses)
    \/ UpdateUser(TypedOptLists, FewResponses)
    \/ UpdateRoles(TypedOptLists, FewResponses)
    \/ UpdatePassword(TypedOptLists, FewResponses)
    \/ SetSecurity(TypedOptLists, FewResponses)
    \/ SetConfigurationValue(TypedOptLists, FewResponses)
    \/ QueryView(TypedOptLists, FewResponses)
    \/ Login(TypedOptLists, FewResponses)
    \/ Logout(TypedOptLists, FewResponses)
    \/ GetSession(TypedOptLists, FewResponses)
    \/ DeleteDocument(TypedOptLists, FewResponses)
    \/ DeleteUser(TypedOptLists, FewResponses)
    \/ HeadDocument(TypedOptLists, FewResponses)
    \/ DatabaseExists(TypedOptLists, FewResponses)
    \/ NextCall

SpecType == Init /\ [][NextType]_vars

----------------------------------------------------------------------------
(* UpdateRoles among other writers of the same user document *)

\* the revisions a caller can hold: none, or one the server has issued
IssuedRevs(srv) == {<<>>} \cup {Rev(n) : n \in 1..srv.seq}

\* the user whose document is written
RolesNames == {<<"john">>}

IdleRoles ==
    [pc |-> "idle", name |-> <<>>, rev |-> <<>>, roles |-> NilSlice,
     current |-> ZeroOf(UserTarget), ret |-> RetNone]

\* the calls of UpdateRoles between their GET and the return of their PUT
InFlight == {g \in Goroutines : procs[g].pc \in {"get", "put"}}

\* the server issues no more than MaxRev revisions
RoomToWrite == server.seq + Cardinality(InFlight) < MaxRev

\* UpdateRoles(ctx, name, rev, roles) is called
RolesBegin(g) ==
    /\ procs[g].pc = "idle"
    /\ RoomToWrite
    /\ \E name \in RolesNames, rev \in IssuedRevs(server), roles \in RoleLists :
           procs' = [procs EXCEPT ![g] = [IdleRoles EXCEPT !.pc = "get", !.name = name,
                                                           !.rev = rev, !.roles = roles]]
    /\ UNCHANGED <<client, call, sent, resps, ret, server, known, held>>

\* currentUser, err := s.GetUser(ctx, name)
RolesGet(g) ==
    /\ procs[g].pc = "get"
    /\ \E o \in OutcomesOn(server,
                           doRequest(client, "GET", UserPath(procs[g].name), NoBody, <<>>),
                           FewResponses) :
           LET currentUser == GetUserResult(procs[g].name, o.r)
           IN  /\ procs' = IF currentUser.kind = "err"
                           THEN [procs EXCEPT
                                    ![g].pc = "done",
                                    ![g].ret = RetErr(OuterError("failed to get user",
                                                                 currentUser.err))]
                           ELSE [procs EXCEPT ![g].pc = "put",
                                              ![g].current = currentUser.val]
               /\ server' = o.server
    /\ UNCHANGED <<client, call, sent, resps, ret, known, held>>

\* the PUT of the user built from the caller's revision and the fetched fields
RolesPut(g) ==
    /\ procs[g].pc = "put"
    /\ LET p == procs[g]
           user == UpdateRolesUser(p.name, p.rev, p.roles, p.current)
       IN  \E o \in OutcomesOn(server,
                               doRequest(client, "PUT", UserPath(p.name),
                                         MarshalUser(user), <<>>),
                               FewResponses) :
               /\ procs' = [procs EXCEPT ![g].pc = "done",
                                         ![g].ret = UpdateRolesResult(o.r)]
               /\ server' = o.server
    /\ UNCHANGED <<client, call, sent, resps, ret, known, held>>

RolesReturn(g) ==
    /\ procs[g].pc = "done"
    /\ procs' = [procs EXCEPT ![g] = IdleRoles]
    /\ UNCHANGED <<client, call, sent, resps, ret, server, known, held>>

\* another writer: a PUT of the user document that names a revision it holds,
\* with a new password (the server hashes it) or without one
OtherWriter ==
    /\ RoomToWrite
    /\ \E name \in RolesNames, rev \in IssuedRevs(server), password \in Passwords :
           LET user == [ZeroUser EXCEPT !.ID = UserDocID(name), !.Rev = rev,
                                        !.Name = name, !.Type = <<"user">>,
                                        !.Roles = <<>>, !.Password = password]
               o == CHOOSE x \in OutcomesOn(server,
                                            doRequest(client, "PUT", UserPath(name),
                                                      MarshalUser(user), <<>>),
                                            FewResponses) : TRUE
           IN  /\ o.server # server
               /\ server' = o.server
    /\ UNCHANGED <<client, call, sent, resps, ret, known, held, procs>>

InitRoles ==
    /\ client = NewClient(BaseURL, "couch")
    /\ call = Idle
    /\ sent = <<>>
    /\ resps = <<>>
    /\ ret = RetNone
    /\ server = EmptyServer
    /\ known = [id \in {} |-> <<>>]
    /\ held = <<>>
    /\ procs = [g \in Goroutines |-> IdleRoles]

NextRoles ==
    \/ \E g \in Goroutines :
           \/ RolesBegin(g)
           \/ RolesGet(g)
           \/ RolesPut(g)
           \/ RolesReturn(g)
    \/ OtherWriter

SpecRoles == InitRoles /\ [][NextRoles]_vars

----------------------------------------------------------------------------
(* Properties *)

\* the credential headers of a request
CredentialsOf(h) == [k \in DOMAIN h \cap CredentialHeaders |-> h[k]]

\* the response the transport gave to the i-th request was read in full
Answered(i) == i <= Len(resps) /\ resps[i].err = "" /\ resps[i].readOK

\* C1: a request issued with an empty option list carries no Authorization,
\* Cookie or X-Auth-CouchDB-* header; a request issued with one or more
\* options carries exactly the credentials the last option's authenticator
\* writes, whatever the options before it are.
C1_LastOptionAuthenticates ==
    \A i \in 1..Len(sent) :
        IF Len(call.opts) = 0
        THEN DOMAIN sent[i].header \cap CredentialHeaders = {}
        ELSE CredentialsOf(sent[i].header)
                = CredentialsOf(Authenticate(call.opts[Len(call.opts)], NoHeader).header)

\* two options of different schemes were passed and the request went out
C1_Witness ==
    /\ Len(sent) = 1
    /\ Len(call.opts) = 2
    /\ call.opts[1].kind = "basic"
    /\ call.opts[2].kind = "proxy"
    /\ sent[1].header[HProxyUser] = <<"proxyuser">>

\* C2: AllDocs called with a non-empty Keys list, the server answering 200
\* with a well-formed listing, returns the decoded AllDocsResponse and a nil
\* error.
C2_AllDocsKeysDecoded ==
    ( /\ call.op = "AllDocs"
      /\ ~call.options.isNil
      /\ Len(call.options.Keys) > 0
      /\ resps = <<Response(StatusOK, BodyAllDocs, TRUE)>> )
        => /\ ret.kind = "ok"
           /\ ret.hasVal
           /\ ret.val.total_rows = <<"1">>
           /\ ret.val.rows = BodyAllDocs.fields.rows.s

\* whether applying the options fails before a request is sent
AuthFails(opts) == Len(opts) > 0 /\ Authenticate(opts[Len(opts)], NoHeader).err

\* the names of the parameters in the query of a request target
ParamNames(target) ==
    {PairName(QueryPairs(target)[i]) : i \in 1..Len(QueryPairs(target))}

\* C3: AllDocs with a non-empty Keys list issues exactly one request, a POST
\* to /{db}/_all_docs whose body is {"keys": Keys} in the caller's order, and
\* no key is in the query string; with no Keys it issues a GET without a body.
C3_AllDocsKeysPosted ==
    call.op = "AllDocs" =>
        /\ Len(sent) = IF AuthFails(call.opts) THEN 0 ELSE 1
        /\ \A i \in 1..Len(sent) :
              /\ PathSegments(sent[i].path) = <<call.dbName, <<"_all_docs">>>>
              /\ IF ~call.options.isNil /\ Len(call.options.Keys) > 0
                 THEN /\ sent[i].method = "POST"
                      /\ sent[i].body = JSONBody([keys |-> call.options.Keys])
                      /\ ParamNames(sent[i].path) \subseteq {<<"include_docs">>}
                 ELSE /\ sent[i].method = "GET"
                      /\ sent[i].body = NoBody

\* two keys were passed and the POST went out
C3_Witness ==
    /\ call.op = "AllDocs"
    /\ call.options.Keys = <<<<"d2">>, <<"d1">>>>
    /\ Len(sent) = 1
    /\ sent[1].method = "POST"
    /\ sent[1].body.obj.keys = <<<<"d2">>, <<"d1">>>>

\* C4: QueryView with a non-empty ViewOptions.Keys list sends the keys in the
\* JSON body of a POST.
C4_QueryViewKeysPosted ==
    (call.op = "QueryView" /\ ~call.options.isNil /\ Len(call.options.Keys) > 0)
        => \A i \in 1..Len(sent) :
              /\ sent[i].method = "POST"
              /\ sent[i].body = JSONBody([keys |-> call.options.Keys])

WriteOps ==
    {"CreateDatabase", "CreateDocument", "UpdateDocument", "BulkInsert", "BulkUpdate",
     "CreateUser", "UpdateUser", "UpdateRoles", "SetSecurity", "SetConfigurationValue"}

\* the body holds the error envelope: an object with error and reason strings
HasEnvelope(b) ==
    /\ b.json = "object"
    /\ {"error", "reason"} \subseteq DOMAIN b.fields
    /\ b.fields.error.t = "str"
    /\ b.fields.reason.t = "str"

\* C5: a create or update operation whose write is answered with a
\* non-success status returns no result and an error: the structured error
\* with the server's error and reason when the body holds them, and otherwise
\* (a body that is not JSON, or JSON without those fields) the error with the
\* numeric status and the raw body.
C5_WriteErrorStructuredOrVerbatim ==
    call.op \in WriteOps =>
        \A i \in 1..Len(sent) :
            ( /\ sent[i].method \in {"PUT", "POST"}
              /\ Answered(i)
              /\ resps[i].status \notin {StatusOK, StatusCreated, StatusAccepted} )
                => /\ ret.kind = "err"
                   /\ ~ret.hasVal
                   /\ IF HasEnvelope(resps[i].body)
                      THEN /\ ret.err.type = "structured"
                           /\ ret.err.error = resps[i].body.fields.error.s
                           /\ ret.err.reason = resps[i].body.fields.reason.s
                      ELSE /\ ret.err.type = "status"
                           /\ ret.err.status = resps[i].status
                           /\ ret.err.body = resps[i].body.text

FetchOps == {"GetDatabase", "GetDocument", "GetUser"}

\* the message of an operation's not-found error
NotFoundMessage(op) ==
    CASE op = "GetDatabase" -> "database not found"
      [] op = "GetDocument" -> "document not found"
      [] OTHER -> "user not found"

\* what the not-found error names: the database, db/doc, or the user
NotFoundSubject(c) ==
    CASE c.op = "GetDatabase" -> c.dbName
      [] c.op = "GetDocument" -> c.dbName \o <<"/">> \o c.docID
      [] OTHER -> c.name

\* C6: GetDatabase, GetDocument and GetUser answered with 404 return their own
\* not-found error and no result, whatever the body holds: an error envelope,
\* text that is not JSON, or nothing of use.
C6_NotFoundWhateverBody ==
    ( /\ call.op \in FetchOps
      /\ Answered(1)
      /\ resps[1].status = StatusNotFound )
        => /\ ret.kind = "err"
           /\ ~ret.hasVal
           /\ ret.err.type = "notfound"
           /\ ret.err.msg = NotFoundMessage(call.op)
           /\ ret.err.subject = NotFoundSubject(call)

\* a 404 whose body is an error envelope was answered to GetDocument
C6_Witness ==
    /\ call.op = "GetDocument"
    /\ resps = <<Response(StatusNotFound, BodyEnvelope, TRUE)>>
    /\ ret.err.msg = "document not found"

CreateOps == {"CreateDatabase", "CreateDocument", "BulkInsert", "CreateUser"}

\* a well-formed success body of a create operation
CreatedBody(op) ==
    CASE op = "CreateDatabase" -> BodyOK
      [] op = "BulkInsert" -> BodyArray
      [] OTHER -> BodyDocResponse

\* C7: every create operation (CreateDatabase, CreateDocument, BulkInsert,
\* CreateUser) returns its result and no error on 201 Created and on 202
\* Accepted alike.
C7_CreatesAccept201And202 ==
    ( /\ call.op \in CreateOps
      /\ Len(resps) = 1
      /\ resps[1] \in {Response(StatusCreated, CreatedBody(call.op), TRUE),
                       Response(StatusAccepted, CreatedBody(call.op), TRUE)} )
        => ret.kind = "ok" /\ ret.hasVal


\* the key fields of the options and the parameters that carry them
KeyParams == {"key", "startkey", "endkey"}

KeyField(options, name) ==
    CASE name = "key" -> options.Key
      [] name = "startkey" -> options.StartKey
      [] OTHER -> options.EndKey

\* C8: for every non-empty string k passed to AllDocs as Key, StartKey or
\* EndKey, a double quote or a backslash in it included, the URL-decoded
\* value of the parameter is a JSON string literal that decodes to k.
C8_AllDocsKeyIsJSONString ==
    ( /\ call.op = "AllDocs"
      /\ ~call.options.isNil
      /\ Len(call.options.Keys) = 0
      /\ Len(sent) = 1 )
        => \A name \in KeyParams :
              KeyField(call.options, name) # <<>>
                  => /\ HasParam(sent[1].path, name)
                     /\ ParseJSONString(ParamValue(sent[1].path, name))
                            = [ok |-> TRUE, val |-> KeyField(call.options, name)]

\* C9: QueryView puts a non-nil Key, StartKey or EndKey in the query as the
\* value's JSON encoding: a string as a quoted literal that decodes to it, a
\* number as its digits without quotes, an array as a JSON array; a nil or
\* absent key adds no parameter.
C9_ViewKeysJSONEncoded ==
    (call.op = "QueryView" /\ Len(sent) = 1) =>
        \A name \in KeyParams :
            LET key == KeyField(call.options, name)
                target == sent[1].path
            IN  IF call.options.isNil \/ key = AnyNil
                THEN ~HasParam(target, name)
                ELSE key.t \in {"str", "num", "arr"} =>
                        /\ HasParam(target, name)
                        /\ CASE key.t = "str" ->
                                    ParseJSONString(ParamValue(target, name))
                                        = [ok |-> TRUE, val |-> key.s]
                             [] key.t = "num" -> ParamValue(target, name) = Itoa(key.n)
                             [] OTHER -> ParamValue(target, name) = Marshal(key).bytes

\* the number 5 was passed as Key and the query reads key=5
C9_Witness ==
    /\ call.op = "QueryView"
    /\ call.options.Key = AnyNum(5)
    /\ Len(sent) = 1
    /\ TargetRawQuery(sent[1].path) = <<"key", "=", "5">>

\* the revision an update names: options.Rev, or the document's _rev
UsedRev(c) ==
    IF ~c.options.isNil /\ c.options.Rev # <<>> THEN c.options.Rev
    ELSE IF c.doc.enc THEN Member(c.doc.obj, "_rev") ELSE <<>>

\* the call that returns in this step is op on a document the caller has
\* written before, in the server's database
OnKnownDoc(op) ==
    /\ call'.op = op
    /\ call'.dbName = CouchDBName
    /\ call'.docID \in DOMAIN known

RoundTripStep ==
    /\ OnKnownDoc("GetDocument") =>
          /\ ret'.kind = "ok"
          /\ ret'.hasVal
          /\ ret'.val["_id"] = call'.docID
    /\ (OnKnownDoc("UpdateDocument") /\ UsedRev(call') = known[call'.docID]) =>
          /\ ret'.kind = "ok"
          /\ ret'.val.id = call'.docID
          /\ server'.docs[call'.docID].rev = ret'.val.rev
          /\ server'.docs[call'.docID].data = Member(call'.doc.obj, "data")
    /\ (OnKnownDoc("UpdateDocument") /\ UsedRev(call') \in AllRevs \ {known[call'.docID]}) =>
          /\ ret'.kind = "err"
          /\ ~ret'.hasVal
          /\ ret'.err.type = "structured"
          /\ ret'.err.error = <<"conflict">>
          /\ server'.docs = server.docs

\* C10: against a server that checks revisions, a document created by
\* CreateDocument is returned by GetDocument under the id the create
\* returned; UpdateDocument naming the latest revision succeeds and stores
\* the document; UpdateDocument naming a stale revision returns the
\* structured conflict error and no result, and leaves the stored document
\* as it was.
C10_RoundTrip == [][RoundTripStep]_vars

\* a created document was updated once with its latest revision, and a
\* second update naming the first revision was refused
C10_Witness ==
    /\ call.op = "UpdateDocument"
    /\ call.docID = Uuid(1)
    /\ Uuid(1) \in DOMAIN known
    /\ known[Uuid(1)] = Rev(2)
    /\ UsedRev(call) = Rev(1)
    /\ ret.err.error = <<"conflict">>
    /\ server.docs[Uuid(1)].rev = Rev(2)


\* the user document GetUser decodes from the first answer of the call
FetchedUser == GetUserResult(call.name, resps[1])

\* C11: UpdateRoles and UpdatePassword send a GET of the user document first
\* and a PUT only after it: the PUT is sent if and only if the GET succeeded,
\* and a failed GET yields an error.  The PUT body of UpdateRoles holds the
\* salt, derived_key, iterations and password_scheme of the fetched document
\* and the new roles; the PUT body of UpdatePassword holds the roles of the
\* fetched document and the new password.
C11_FetchBeforeUpdate ==
    call.op \in {"UpdateRoles", "UpdatePassword"} =>
        /\ Len(sent) = (IF AuthFails(call.opts) THEN 0
                        ELSE IF FetchedUser.kind = "ok" THEN 2 ELSE 1)
        /\ Len(sent) >= 1 =>
              /\ sent[1].method = "GET"
              /\ sent[1].body = NoBody
              /\ PathSegments(sent[1].path)
                    = <<<<"_users">>, <<"org.couchdb.user", ":">> \o call.name>>
        /\ Len(sent) < 2 => ret.kind = "err" /\ ~ret.hasVal
        /\ Len(sent) = 2 =>
              LET body == sent[2].body.obj
                  got == FetchedUser.val
              IN  /\ sent[2].method = "PUT"
                  /\ PathSegments(sent[2].path) = PathSegments(sent[1].path)
                  /\ IF call.op = "UpdateRoles"
                     THEN /\ Member(body, "salt") = got.salt
                          /\ Member(body, "derived_key") = got.derived_key
                          /\ Member(body, "password_scheme") = got.password_scheme
                          /\ IF "iterations" \in DOMAIN body
                             THEN body.iterations = got.iterations
                             ELSE got.iterations = <<"0">>
                          /\ body.roles = IF call.roles = NilSlice THEN <<>> ELSE call.roles
                          /\ "password" \notin DOMAIN body
                     ELSE /\ body.roles = IF got.roles = NilSlice THEN <<>> ELSE got.roles
                          /\ call.newPassword # <<>> => body.password = call.newPassword

\* UpdateRoles fetched a user with a password hash and sent the PUT
C11_Witness ==
    /\ call.op = "UpdateRoles"
    /\ call.roles = <<"dev", "ops">>
    /\ Len(sent) = 2
    /\ resps[1] = Response(StatusOK, BodyUser, TRUE)
    /\ sent[2].body.obj.salt = <<"s4lt">>
    /\ sent[2].body.obj.iterations = <<"10">>


\* the cookies of a Cookie request header as the server reads them: the name
\* before "=", the value after it without its surrounding quotes
CookieSent(h) == <<h[1]>> \o ParseCookieValue(SubSeq(h, 3, Len(h))).val

\* the position of the first valid Set-Cookie line named AuthSession, 0 if none
FirstAuthSession(r) ==
    LET cs == Cookies(r)
        at == {i \in 1..Len(cs) : cs[i][1] = "AuthSession"}
    IN  IF at = {} THEN 0 ELSE CHOOSE i \in at : \A j \in at : i <= j

\* C12: a Login answered 200 with a well-formed body returns the decoded
\* result (ok, name, roles), a nil error and the first AuthSession cookie of
\* the response; a later call given that cookie through WithCookieAuth sends a
\* Cookie header with the same name and value.
C12_LoginReturnsSessionCookie ==
    /\ ( /\ call.op = "Login"
         /\ Len(resps) = 1
         /\ resps[1].err = "" /\ resps[1].readOK
         /\ resps[1].status = 200 /\ resps[1].body = BodyLogin )
       => /\ ret.kind = "ok" /\ ret.hasVal /\ ret.err = NoErr
          /\ ret.val = [ok |-> <<"true">>, name |-> <<"john">>, roles |-> <<"[\"dev\"]">>]
          /\ ret.cookie = (IF FirstAuthSession(resps[1]) = 0 THEN <<>>
                           ELSE Cookies(resps[1])[FirstAuthSession(resps[1])])
          /\ held = (IF ret.cookie # <<>> THEN ret.cookie ELSE held)
    /\ ( /\ call.op # "none"
         /\ held # <<>>
         /\ call.opts = <<WithCookieAuth(held)>> )
       => /\ Len(sent) = 1
          /\ HCookie \in DOMAIN sent[1].header
          /\ sent[1].header[HCookie][2] = "="
          /\ CookieSent(sent[1].header[HCookie]) = held
          /\ held[1] = "AuthSession"

\* a login returned the second, quoted cookie and the next call carries it
C12_Witness ==
    /\ call.op = "GetSession"
    /\ held = <<"AuthSession", "a", " ", "b">>
    /\ call.opts = <<WithCookieAuth(held)>>
    /\ Len(sent) = 1


\* C13: the client keeps no session.  After logins that returned a cookie the
\* client still has the base address and transport NewClient gave it, a call
\* without options sends no Cookie header, and a Cookie header is sent only by
\* a call whose own option is WithCookieAuth with a cookie.
C13_NoSessionRetained ==
    /\ client = NewClient(BaseURL, "mock")
    /\ \A i \in 1..Len(sent) :
           /\ Len(call.opts) = 0 => HCookie \notin DOMAIN sent[i].header
           /\ HCookie \in DOMAIN sent[i].header =>
                  /\ Len(call.opts) > 0
                  /\ call.opts[Len(call.opts)].kind = "cookie"
                  /\ call.opts[Len(call.opts)].cookie # <<>>
                  /\ CookieSent(sent[i].header[HCookie])
                         = call.opts[Len(call.opts)].cookie

\* the caller holds a cookie from a login and calls without options
C13_Witness ==
    /\ held # <<>>
    /\ call.op \in {"GetSession", "GetDatabase", "Login"}
    /\ call.opts = <<>>
    /\ Len(sent) = 1
    /\ HCookie \notin DOMAIN sent[1].header


\* the credential headers a call with these options is to send
OwnCredentials(opts) ==
    IF Len(opts) = 0 THEN NoHeader
    ELSE LET h == Authenticate(opts[Len(opts)], NoHeader).header
         IN  [k \in DOMAIN h \cap CredentialHeaders |-> h[k]]

\* C14: for any interleaving of concurrent calls through one client, each
\* with its own options, the client's base address and transport are never
\* modified, and every request handed to the transport carries the credentials
\* of its own call's selected option and no others.
C14_ConcurrentCallsIsolated ==
    /\ client = NewClient(BaseURL, "mock")
    /\ \A g \in Goroutines :
           procs[g].pc = "inflight" =>
               /\ procs[g].wire.url = NewClient(BaseURL, "mock").baseURL \o SessionPath
               /\ [k \in DOMAIN procs[g].wire.header \cap CredentialHeaders |->
                      procs[g].wire.header[k]] = OwnCredentials(procs[g].opts)

\* two requests with different credentials are in flight at the same time
C14_Witness ==
    /\ procs[1].pc = "inflight" /\ procs[2].pc = "inflight"
    /\ procs[1].opts = <<WithBasicAuth("admin", "adminpass")>>
    /\ procs[2].opts = <<WithCookieAuth(<<"AuthSession", "abc123">>)>>


\* the last exchange of the call ended with the cancellation of its context
CancelledInFlight ==
    /\ call.op # "none"
    /\ Len(resps) >= 1
    /\ "ctx" \in DOMAIN resps[Len(resps)]

\* C15: when the caller's context is cancelled while an exchange is in flight,
\* the operation returns a non-nil error reporting the cancellation and no
\* result: the context's error wrapped by the operation, from client.Do or
\* from reading the body.
C15_CancelledCallReturnsError ==
    CancelledInFlight =>
        /\ ret.kind = "err"
        /\ ~ret.hasVal
        /\ \/ ret.err.cause = "canceled"
           \/ ret.err.type = "read"


\* the operation failed before it called doRequest (json.Marshal of its body)
FailedBeforeDispatch == ret.kind = "err" /\ ret.err.type = "marshal"

\* C16: when the authenticator of the selected (last) option returns an
\* error, doRequest returns "authentication failed: ..." wrapping it and the
\* transport is never invoked: no request is sent and the operation returns
\* an error whose cause is the authentication failure.
C16_AuthErrorStopsRequest ==
    (call.op # "none" /\ Len(call.opts) > 0
        /\ call.opts[Len(call.opts)] = WithFailingAuth) =>
        /\ sent = <<>>
        /\ resps = <<>>
        /\ ret.kind = "err"
        /\ ~ret.hasVal
        /\ ~FailedBeforeDispatch => ret.err.cause = "auth"

\* a failing authenticator after a working one, on a request that was built
C16_Witness ==
    /\ call.op = "GetDocument"
    /\ call.opts = <<WithBasicAuth("admin", "adminpass"), WithFailingAuth>>
    /\ ret.kind = "err"
    /\ ret.err.cause = "auth"


\* the headers that carry the credentials of each kind of authenticator
Carrier(kind) ==
    CASE kind = "basic" -> {HAuthorization}
      [] kind = "cookie" -> {HCookie}
      [] kind = "proxy" -> {HProxyUser, HProxyRoles, HProxyToken}
      [] kind = "jwt" -> {HAuthorization}
      [] OTHER -> {}

\* C17: applying one of the four authenticators to a request changes only
\* the headers that carry its credentials (Basic: Authorization; Cookie:
\* Cookie; Proxy: the three X-Auth-CouchDB-* headers; JWT: Authorization);
\* every other header, the method, the URL and the body are left as they were.
C17_OnlyOwnCarrierChanges ==
    call.op = "Authenticate" =>
        LET before == call.req
            after == sent[1]
            others == (DOMAIN before.header \cup DOMAIN after.header)
                          \ Carrier(call.a.kind)
        IN  /\ ret.kind = "ok"
            /\ after.method = before.method
            /\ after.url = before.url
            /\ after.body = before.body
            /\ \A k \in others :
                   /\ k \in DOMAIN before.header
                   /\ k \in DOMAIN after.header
                   /\ after.header[k] = before.header[k]

\* a bearer token applied to a request that already has a cookie and a
\* proxy header: the Authorization header is replaced, the others stay
C17_Witness ==
    /\ call.op = "Authenticate"
    /\ call.a = WithJWTAuth("eyJ.tok")
    /\ {HAuthorization, HCookie, HProxyUser} \subseteq DOMAIN call.req.header
    /\ sent[1].header[HAuthorization] # call.req.header[HAuthorization]


\* C18: the Proxy authenticator sets all three headers, X-Auth-CouchDB-UserName,
\* X-Auth-CouchDB-Roles and X-Auth-CouchDB-Token, on every request, also when
\* its roles list is empty or its token is the empty string.
C18_ProxySetsThreeHeaders ==
    (call.op = "Authenticate" /\ call.a.kind = "proxy") =>
        /\ {HProxyUser, HProxyRoles, HProxyToken} \subseteq DOMAIN sent[1].header
        /\ sent[1].header[HProxyUser] = <<call.a.user>>
        /\ sent[1].header[HProxyRoles]
               = Join([i \in 1..Len(call.a.roles) |-> <<call.a.roles[i]>>], <<",">>)
        /\ sent[1].header[HProxyToken] = <<call.a.secret>>


\* a key of the view query that encoding/json cannot encode: not a zero value
UnencodableKey ==
    /\ call.op = "QueryView"
    /\ \/ Marshal(call.options.Key).err
       \/ Marshal(call.options.StartKey).err
       \/ Marshal(call.options.EndKey).err

\* the call was given no option value other than zero values
AllOptionsZero ==
    \/ call.op \in {"DeleteDocument", "DeleteUser"} /\ call.rev = <<>>
    \/ call.op = "AllDocs" /\ call.options \in {ZeroAllDocsOptions, NilAllDocsOptions}
    \/ call.op = "GetDocument"
           /\ call.options \in {ZeroGetOptions, [ZeroGetOptions EXCEPT !.isNil = TRUE]}
    \/ call.op = "QueryView" /\ call.options \in {ZeroViewOptions, NilViewOptions}

\* C19: in every operation a query parameter whose source value is zero or
\* empty is absent from the request, never sent with an empty value:
\* DeleteDocument and DeleteUser with an empty rev send no rev parameter, and
\* an operation whose options are all zero-valued sends a target without '?'.
C19_EmptyParamsAbsent ==
    \A i \in 1..Len(sent) :
        LET pairs == QueryPairs(sent[i].path)
        IN  /\ ~UnencodableKey =>
                   \A j \in 1..Len(pairs) : IndexOf(pairs[j], "=") # Len(pairs[j])
            /\ AllOptionsZero => ~HasQueryMark(sent[i].path)


\* C20: SetConfigurationValue issues exactly one PUT to
\* /_node/{node}/_config/{section}/{key} whose body is the JSON string literal
\* of the value (the value 5 is sent as "5"), and on 200 returns the prior
\* value, decoded from the response body as a JSON string.
C20_SetConfigurationValue ==
    (call.op = "SetConfigurationValue" /\ ~AuthFails(call.opts)) =>
        /\ Len(sent) = 1
        /\ sent[1].method = "PUT"
        /\ ~HasQueryMark(sent[1].path)
        /\ PathSegments(sent[1].path)
               = <<<<"_node">>, call.nodeName, <<"_config">>, call.section, call.key>>
        /\ sent[1].body.kind = "text"
        /\ ParseJSONString(sent[1].body.text) = [ok |-> TRUE, val |-> call.value]
        /\ call.value = <<"5">> => sent[1].body.text = <<Quote, "5", Quote>>
        /\ (resps[1] = Response(200, BodyString, TRUE)) =>
               /\ ret.kind = "ok"
               /\ ret.val.value = <<"o", "l", Quote, "d">>

\* the value 5 was set in a section whose name needs escaping and the server
\* answered with the old value
C20_Witness ==
    /\ call.op = "SetConfigurationValue"
    /\ call.value = <<"5">>
    /\ call.section = <<"a", "/", "b">>
    /\ Len(sent) = 1
    /\ resps[1] = Response(200, BodyString, TRUE)
    /\ ret.kind = "ok"


\* what the other of BulkInsert and BulkUpdate sends and returns on the
\* inputs and the answer of the call in progress
BulkTwinRequests ==
    IF BulkBody(call.docs).err \/ AuthFails(call.opts) THEN <<>>
    ELSE <<doRequest(client, "POST", BulkPath(call.dbName),
                     BulkBody(call.docs).body, call.opts).req>>

BulkTwinResult ==
    IF BulkBody(call.docs).err
    THEN RetErr(MarshalError("failed to marshal bulk docs"))
    ELSE LET r == IF Len(resps) = 0 THEN AuthFailure ELSE resps[1]
         IN  IF call.op = "BulkInsert" THEN BulkUpdateResult(r)
             ELSE BulkInsertResult(r)

\* C21 as stated: BulkInsert and BulkUpdate send the same request (POST
\* /{db}/_bulk_docs with body {"docs": [...]}) and return the same result and
\* the same error for every answer of the transport.
C21_BulkTwinsIdentical ==
    call.op \in {"BulkInsert", "BulkUpdate"} =>
        /\ sent = BulkTwinRequests
        /\ ret = BulkTwinResult

\* the message each of the two puts in front of its errors
BulkMessage(op) ==
    IF op = "BulkInsert" THEN "failed to bulk insert" ELSE "failed to bulk update"

\* C21: BulkInsert and BulkUpdate send the same request (POST /{db}/_bulk_docs
\* with body {"docs": [...]}) and return the same result; their errors are the
\* same except that the error wrapping a failure of the request and the error
\* built from the server's error body begin with the operation's own name.
C21_BulkTwinsSameButMessage ==
    call.op \in {"BulkInsert", "BulkUpdate"} =>
        /\ sent = BulkTwinRequests
        /\ \A i \in 1..Len(sent) :
               /\ sent[i].method = "POST"
               /\ PathSegments(sent[i].path) = <<call.dbName, <<"_bulk_docs">>>>
               /\ sent[i].body = JSONBody([docs |-> call.docs])
        /\ ret.kind = BulkTwinResult.kind
        /\ ret.hasVal = BulkTwinResult.hasVal
        /\ ret.val = BulkTwinResult.val
        /\ [ret.err EXCEPT !.msg = ""] = [BulkTwinResult.err EXCEPT !.msg = ""]
        /\ ret.err.msg # BulkTwinResult.err.msg =>
               /\ ret.err.type \in {"wrapped", "structured"}
               /\ ret.err.msg = BulkMessage(call.op)

\* BulkUpdate answered with a conflict: the error names the update
C21_Witness ==
    /\ call.op = "BulkUpdate"
    /\ Len(sent) = 1
    /\ resps[1] = Response(409, BodyEnvelope, TRUE)
    /\ ret.err.msg = "failed to bulk update"


\* an ETag of the form quote + r + quote
Wrapped(etag) == Len(etag) >= 2 /\ etag[1] = Quote /\ etag[Len(etag)] = Quote

\* C22: on a 200 response HeadDocument returns the ETag header without its
\* surrounding double quotes: quote + r + quote (length at least 2) yields r,
\* an ETag that is empty or not wrapped in a pair of quotes is returned
\* unchanged; on 404 it returns the not-found error and an empty revision.
C22_HeadDocumentETag ==
    (call.op = "HeadDocument" /\ Len(resps) = 1 /\ resps[1].err = "") =>
        /\ resps[1].status = 200 =>
               /\ ret.kind = "ok"
               /\ Wrapped(ETag(resps[1])) =>
                      <<Quote>> \o ret.val.value \o <<Quote>> = ETag(resps[1])
               /\ ~Wrapped(ETag(resps[1])) => ret.val.value = ETag(resps[1])
        /\ resps[1].status = 404 =>
               /\ ret.kind = "err" /\ ~ret.hasVal
               /\ ret.err.type = "notfound"
               /\ ret.err.msg = "document not found"
               /\ ret.err.subject = call.dbName \o <<"/">> \o call.docID

\* the revision "1" came back without its quotes
C22_Witness ==
    /\ call.op = "HeadDocument"
    /\ Len(resps) = 1 /\ resps[1].err = "" /\ resps[1].status = 200
    /\ ETag(resps[1]) = <<Quote, "1", Quote>>
    /\ ret.kind = "ok"
    /\ ret.val.value = <<"1">>


\* C30: DatabaseExists classifies the HEAD response by its status alone: 200
\* returns true and no error, 404 returns false and no error, every other
\* status returns false with an error naming the status; a missing database
\* is not an error.
C30_DatabaseExistsByStatus ==
    (call.op = "DatabaseExists" /\ Len(resps) = 1 /\ resps[1].err = "") =>
        /\ Len(sent) = 1 /\ sent[1].method = "HEAD"
        /\ PathSegments(sent[1].path) = <<call.dbName>>
        /\ resps[1].status = 200 => ret = RetValue(<<"true">>)
        /\ resps[1].status = 404 => ret = RetValue(<<"false">>)
        /\ resps[1].status \notin {200, 404} =>
               /\ ret.kind = "err" /\ ~ret.hasVal
               /\ ret.err.msg = "unexpected status code"
               /\ ret.err.status = resps[1].status

\* a missing database answered with an ETag: false, no error
C30_Witness ==
    /\ call.op = "DatabaseExists"
    /\ Len(resps) = 1 /\ resps[1].err = "" /\ resps[1].status = 404
    /\ ETag(resps[1]) # <<>>
    /\ ret.kind = "ok"
    /\ ret.val.value = <<"false">>


\* C23: the reduce parameter of QueryView has three states: a nil Reduce sends
\* no reduce parameter, a pointer to true sends reduce=true and a pointer to
\* false sends reduce=false, so an explicit false differs on the wire from an
\* absent value.
C23_ReduceTriState ==
    (call.op = "QueryView" /\ Len(sent) >= 1) =>
        LET target == sent[1].path
            reduce == IF call.options.isNil THEN "nil" ELSE call.options.Reduce
        IN  /\ reduce = "nil" => ~HasParam(target, "reduce")
            /\ reduce = "true" =>
                   HasParam(target, "reduce") /\ ParamValue(target, "reduce") = <<"true">>
            /\ reduce = "false" =>
                   HasParam(target, "reduce") /\ ParamValue(target, "reduce") = <<"false">>

\* an explicit false on the wire
C23_Witness ==
    /\ call.op = "QueryView"
    /\ ~call.options.isNil /\ call.options.Reduce = "false"
    /\ Len(sent) = 1
    /\ HasParam(sent[1].path, "reduce")


\* C24: every request handed to the transport has the Content-Type
\* application/json, whatever its method (GET, HEAD and DELETE without a body
\* included) and whichever authenticator was applied: the header is set after
\* the authenticator ran, so an authenticator cannot leave another one.
C24_ContentTypeJSON ==
    \A i \in 1..Len(sent) :
        /\ HContentType \in DOMAIN sent[i].header
        /\ sent[i].header[HContentType] = <<"application/json">>

\* a HEAD without a body, after an authenticator that set text/plain
C24_Witness ==
    /\ call.op = "HeadDocument"
    /\ call.opts = <<WithCustomAuth>>
    /\ Len(sent) = 1
    /\ sent[1].method = "HEAD" /\ sent[1].body = NoBody
    /\ sent[1].header[HAuthorization] = <<"Custom ", "x">>


\* the segments the endpoint's path is to have, read from the names given
EndpointSegments(endpoint, n) ==
    CASE endpoint = "database" -> <<n[1]>>
      [] endpoint = "document" -> <<n[1], n[2]>>
      [] endpoint = "bulk" -> <<n[1], <<"_bulk_docs">>>>
      [] endpoint = "allDocs" -> <<n[1], <<"_all_docs">>>>
      [] endpoint = "view" -> <<n[1], <<"_design">>, n[2], <<"_view">>, n[3]>>
      [] endpoint = "config" -> <<<<"_node">>, n[1], <<"_config">>, n[2], n[3]>>
      [] OTHER -> <<<<"_users">>, <<"org.couchdb.user", ":">> \o n[1]>>

\* C25: every caller-supplied path segment (database name, document id,
\* design document and view name, node, section and key, user name) is
\* percent-escaped: the request path has the fixed number of segments of its
\* endpoint also when a value holds '/', '?' or '#', and unescaping each
\* segment yields the value that was given.
C25_PathSegmentsEscaped ==
    call.op = "BuildPath" =>
        /\ PathSegments(sent[1].path) = EndpointSegments(call.endpoint, call.names)
        /\ sent[1].url = client.baseURL \o sent[1].path
        /\ call.endpoint = "view" => ParamValue(sent[1].path, "reduce") = <<"false">>
        /\ call.endpoint = "document" => ParamValue(sent[1].path, "revs") = <<"true">>

\* a view whose name is "/#" in a database called "?x#"
C25_Witness ==
    /\ call.op = "BuildPath"
    /\ call.endpoint = "view"
    /\ call.names = << <<"?", "x", "#">>, <<"/">>, <<"/", "#">> >>
    /\ Len(PathSegments(sent[1].path)) = 5


\* C26: whenever the PUT of UpdateRoles is accepted, among any interleaving
\* with the other writers of the document and with other calls of
\* UpdateRoles, the hashed-password fields the server stores after the PUT
\* are the ones it stored immediately before it.
C26_PasswordHashKept ==
    [][\A g \in Goroutines :
          (procs[g].pc = "put" /\ procs'[g].pc = "done" /\ procs'[g].ret.kind = "ok")
              => LET id == UserDocID(procs[g].name)
                 IN  /\ id \in DOMAIN server.docs
                     /\ HashOf(server'.docs[id]) = HashOf(server.docs[id])]_vars

\* UpdateRoles succeeded on a document whose password another writer had
\* changed after it was created
C26_Witness ==
    \E g \in Goroutines :
        /\ procs[g].pc = "done"
        /\ procs[g].ret.kind = "ok"
        /\ server.seq >= 3
        /\ LET doc == server.docs[UserDocID(procs[g].name)]
           IN  /\ doc.salt = <<"salt">> \o Itoa(2)
               /\ doc.roles = <<"dev", "ops">>


\* the operations that call doRequest twice: the GET of GetUser, then a PUT
TwoRequestOps == {"UpdateRoles", "UpdatePassword"}

\* C27: an operation hands the transport at most one request (UpdatePassword
\* and UpdateRoles at most two, a GET and then a PUT), and a failure of the
\* transport is the answer to the last request sent: the operation sends
\* nothing after it and returns an error whose cause is that failure.
C27_NoRetry ==
    call # Idle =>
        /\ Len(sent) <= (IF call.op \in TwoRequestOps THEN 2 ELSE 1)
        /\ Len(sent) = 2 => sent[1].method = "GET" /\ sent[2].method = "PUT"
        /\ Len(resps) = Len(sent)
        /\ \A i \in 1..Len(resps) :
              resps[i].err # "" =>
                  /\ i = Len(sent)
                  /\ ret.kind = "err"
                  /\ ret.err.cause = resps[i].err

\* the transport failed on the PUT of UpdateRoles, the second request of the
\* call, and the call returned the failure
C27_Witness ==
    /\ call # Idle
    /\ call.op = "UpdateRoles"
    /\ Len(sent) = 2
    /\ resps[2].err = "transport"
    /\ ret.err.cause = "transport"


\* C29: when a Key, StartKey or EndKey of QueryView cannot be encoded as
\* JSON, QueryView returns an error and hands no request to the transport.
C29_UnencodableKeyRejected ==
    UnencodableKey => sent = <<>> /\ ret.kind = "err"


\* C28: no operation dereferences or closes a response it did not obtain:
\* whatever the transport answers, no call ends in the run-time panic of
\* "defer resp.Body.Close()" on a nil resp.
C28_NoForeignResponse ==
    call # Idle => ret.kind # "panic"

====
